---- MODULE Spec2Model ----
(***************************************************************************)
(* A model of github.com/freeformz/sets: the Map, Ordered and SyncMap set  *)
(* containers, the RWMutex wrappers Locked and LockedOrdered, and the      *)
(* condition-variable wrappers lockedMap and LockedOrdered.                *)
(*                                                                         *)
(* Go indices are zero based and kept so in idx; a TLA+ sequence is one    *)
(* based, so values[i] of the source is values[i + 1] here.                *)
(***************************************************************************)
EXTENDS Integers, Sequences, FiniteSets, TLC

\* ------------------------------------------------------------------ bounds

\* Elements are the integers 1..MaxElem.
MaxElem == 3
\* Longest sequence handed to AppendSeq / RemoveSeq.
MaxSeqLen == 2
\* Goroutines sharing one wrapped set.
NumG == 2
\* Calls the goroutines make on the shared set, all together.
MaxCalls == 2
\* The shared set holds the keys 1..MaxKey.
MaxKey == 2

Elems == 1..MaxElem

None == 0

VARIABLES
    kind,      \* the concrete set type in use
    set,       \* Map.set / SyncMap.m: the keys of the Go map
    idx,       \* Ordered.idx: element -> zero-based position
    values,    \* Ordered.values: the forward sequence
    stateI,    \* SetStateMachine.stateI: the keys of the tests' reference model
    last,      \* the last completed operation, its arguments and results
    pc,        \* where each goroutine stands in the method it called
    call,      \* the method each goroutine called
    calls,     \* the number of calls made so far
    writer,    \* RWMutex: the goroutine that owns the write side, or None
    readers,   \* RWMutex: the read locks each goroutine holds
    iterating, \* lockedMap.iterating
    waiters,   \* sync.Cond: the goroutines parked in Wait
    cur,       \* each goroutine's progress through the range loop
    ev,        \* how the last pass ended; whether a mutator called during a
               \* pass has run since
    objs,      \* the sets a, b and c handed to the set functions: kind and storage
    heap       \* the storage (map, or idx and values) the sets of objs point to

\* The delegate's fields.
dvars == <<set, idx, values>>
\* The goroutines and the locks.
cvars == <<pc, call, calls, writer, readers, iterating, waiters, cur, ev>>

\* The operands and results of the set functions.
avars == <<objs, heap>>

vars == <<kind, set, idx, values, stateI, last, pc, call, calls, writer,
          readers, iterating, waiters, cur, ev, objs, heap>>

\* ----------------------------------------------------------------- helpers

Range(s) == {s[i] : i \in 1..Len(s)}

NoDup(s) == \A i, j \in 1..Len(s) : s[i] = s[j] => i = j

EmptyIdx == [k \in {} |-> 0]

\* delete(f, m)
Delete(f, m) == [k \in DOMAIN f \ {m} |-> f[k]]

\* All sequences over S of length at most n.
SeqsUpTo(S, n) == UNION {[1..k -> S] : k \in 0..n}

\* All orders in which a Go `range` over a map with key set S may yield.
Orders(S) == {q \in [1..Cardinality(S) -> S] : Range(q) = S}

\* ------------------------------------------------------------------- Map

MapContains(s, m) == m \in s

MapAdd_AlwaysTrue(s, m) == [set |-> s \cup {m}, ret |-> TRUE]

MapAdd(s, m) ==
    IF MapContains(s, m)
    THEN [set |-> s, ret |-> FALSE]
    ELSE [set |-> s \cup {m}, ret |-> TRUE]

MapRemove_KeepsKey(s, m) ==
    IF ~MapContains(s, m)
    THEN [set |-> s, ret |-> FALSE]
    ELSE [set |-> s, ret |-> TRUE]

MapRemove(s, m) ==
    IF ~MapContains(s, m)
    THEN [set |-> s, ret |-> FALSE]
    ELSE [set |-> s \ {m}, ret |-> TRUE]

\* Clear that takes len(s.set) after emptying the map.
MapClear_CountsAfter(s) == [set |-> {}, ret |-> 0]
MapClear(s) == [set |-> {}, ret |-> Cardinality(s)]

MapCardinality(s) == Cardinality(s)

\* The yields of one full pass, in any of the orders a map range may take.
MapIterator(s) == Orders(s)

MapPop_KeepsKey(s) ==
    IF s = {}
    THEN {[set |-> s, m |-> None, ok |-> FALSE]}
    ELSE {[set |-> s, m |-> k, ok |-> TRUE] : k \in s}

\* for k := range s.set { delete(s.set, k); return k, true }
MapPop(s) ==
    IF s = {}
    THEN {[set |-> s, m |-> None, ok |-> FALSE]}
    ELSE {[set |-> s \ {k}, m |-> k, ok |-> TRUE] : k \in s}

RECURSIVE NewFrom(_)
NewFrom(seq) ==
    IF seq = <<>> THEN {}
    ELSE MapAdd(NewFrom(SubSeq(seq, 1, Len(seq) - 1)), seq[Len(seq)]).set

MapClone(s) == {NewFrom(q) : q \in MapIterator(s)}

\* --------------------------------------------------------------- SyncMap

SyncMapContains(s, m) == m \in s

\* LoadOrStore: stores when absent, reports loaded.
SyncMapAdd(s, m) ==
    LET loaded == m \in s
    IN  [set |-> s \cup {m}, ret |-> ~loaded]

\* LoadAndDelete
SyncMapRemove(s, m) ==
    LET ok == m \in s
    IN  [set |-> s \ {m}, ret |-> ok]

SyncMapCardinality(s) == Cardinality(s)

\* ---------------------------------------------------------------- Ordered

NewOrdered == [idx |-> EmptyIdx, values |-> <<>>]

OrderedContains(o, m) == m \in DOMAIN o.idx

OrderedCardinality(o) == Len(o.values)

Renumber_NoOffset(f, vals, d) ==
    LET js == (d + 1)..Len(vals)
        later == {vals[j] : j \in js}
        lastAt(k) == CHOOSE j \in js : vals[j] = k /\ \A j2 \in js : vals[j2] = k => j2 <= j
    IN  [k \in DOMAIN f \cup later |-> IF k \in later THEN lastAt(k) - 1 - d ELSE f[k]]

\* for i, v := range vals[d:] { idx[v] = d + i }
Renumber(f, vals, d) ==
    LET js == (d + 1)..Len(vals)
        later == {vals[j] : j \in js}
        lastAt(k) == CHOOSE j \in js : vals[j] = k /\ \A j2 \in js : vals[j2] = k => j2 <= j
    IN  [k \in DOMAIN f \cup later |-> IF k \in later THEN lastAt(k) - 1 ELSE f[k]]

OrderedClear(o) == [o |-> [idx |-> EmptyIdx, values |-> <<>>], ret |-> Len(o.values)]

OrderedAdd_NoContainsCheck(o, m) ==
    LET vals == Append(o.values, m)
    IN  [o |-> [idx |-> (m :> (Len(vals) - 1)) @@ o.idx, values |-> vals], ret |-> TRUE]

OrderedAdd(o, m) ==
    IF OrderedContains(o, m)
    THEN [o |-> o, ret |-> FALSE]
    ELSE LET vals == Append(o.values, m)
         IN  [o |-> [idx |-> (m :> (Len(vals) - 1)) @@ o.idx, values |-> vals],
              ret |-> TRUE]

OrderedRemove_NoRenumber(o, m) ==
    IF ~OrderedContains(o, m)
    THEN [o |-> o, ret |-> FALSE]
    ELSE LET d == o.idx[m]
             vals == SubSeq(o.values, 1, d) \o SubSeq(o.values, d + 2, Len(o.values))
         IN  [o |-> [idx |-> Delete(o.idx, m), values |-> vals], ret |-> TRUE]

OrderedRemove(o, m) ==
    IF ~OrderedContains(o, m)
    THEN [o |-> o, ret |-> FALSE]
    ELSE LET d == o.idx[m]
             vals == SubSeq(o.values, 1, d) \o SubSeq(o.values, d + 2, Len(o.values))
         IN  [o |-> [idx |-> Delete(Renumber(o.idx, vals, d), m), values |-> vals],
              ret |-> TRUE]

OrderedIterator(o) == o.values

\* for k := range s.idx { s.Remove(k); return k, true }
OrderedPop(o) ==
    IF DOMAIN o.idx = {}
    THEN {[o |-> o, m |-> None, ok |-> FALSE]}
    ELSE {[o |-> OrderedRemove(o, k).o, m |-> k, ok |-> TRUE] : k \in DOMAIN o.idx}

\* slices.Sort
RECURSIVE SortInsert(_, _)
SortInsert(s, x) ==
    IF s = <<>> THEN <<x>>
    ELSE IF x < s[1] THEN <<x>> \o s
    ELSE <<s[1]>> \o SortInsert(Tail(s), x)

RECURSIVE SlicesSort(_)
SlicesSort(s) ==
    IF s = <<>> THEN <<>>
    ELSE SortInsert(SlicesSort(Tail(s)), s[1])

OrderedSort_KeepsIdx(o) == [idx |-> o.idx, values |-> SlicesSort(o.values)]

OrderedSort(o) ==
    LET vals == SlicesSort(o.values)
    IN  [idx |-> Renumber(o.idx, vals, 0), values |-> vals]

OrderedAt_NoLowerBound(o, i) ==
    IF i >= Len(o.values)
    THEN [m |-> None, found |-> FALSE]
    ELSE [m |-> IF i < 0 THEN None ELSE o.values[i + 1], found |-> TRUE]

OrderedAt(o, i) ==
    IF i < 0 \/ i >= Len(o.values)
    THEN [m |-> None, found |-> FALSE]
    ELSE [m |-> o.values[i + 1], found |-> TRUE]

OrderedIndex(o, m) == IF m \in DOMAIN o.idx THEN o.idx[m] ELSE -1

RECURSIVE NewOrderedFrom(_)
NewOrderedFrom(seq) ==
    IF seq = <<>> THEN NewOrdered
    ELSE OrderedAdd(NewOrderedFrom(SubSeq(seq, 1, Len(seq) - 1)), seq[Len(seq)]).o

OrderedClone(o) == NewOrderedFrom(OrderedIterator(o))

\* ------------------------------------------------- the Set interface

\* The set types a single goroutine drives in the tests' state machine.
SeqKinds == {"Map", "Ordered", "SyncMap", "Locked", "LockedOrdered"}

\* Kinds whose elements live in an Ordered (idx, values); the others keep
\* them in a Go map (set).
IsOrderedKind(k) ==
    k \in {"Ordered", "LockedOrdered", "LockedOrderedCond", "LockedWrappingOrdered"}

\* Kinds whose elements live in a Map, bare or behind a lock.
IsMapKind(k) == k \in {"Map", "Locked", "lockedMap", "LockedMap"}

\* The receiver: the fields of the set in use.
Recv == [set |-> set, idx |-> idx, values |-> values]

AsOrdered(r) == [idx |-> r.idx, values |-> r.values]

WithOrdered(r, o) == [set |-> r.set, idx |-> o.idx, values |-> o.values]

WithMap(r, s) == [set |-> s, idx |-> r.idx, values |-> r.values]

NewEmptyRecv == [set |-> {}, idx |-> EmptyIdx, values |-> <<>>]

\* s.Contains(m); the wrappers delegate to s.set.Contains under RLock.
SetContains(k, r, m) ==
    CASE IsMapKind(k) -> MapContains(r.set, m)
      [] k = "SyncMap" -> SyncMapContains(r.set, m)
      [] IsOrderedKind(k) -> OrderedContains(AsOrdered(r), m)

\* s.Cardinality()
SetCardinality(k, r) ==
    CASE IsMapKind(k) -> MapCardinality(r.set)
      [] k = "SyncMap" -> SyncMapCardinality(r.set)
      [] IsOrderedKind(k) -> OrderedCardinality(AsOrdered(r))

\* s.Add(m); the wrappers delegate to s.set.Add under Lock.
SetAdd(k, r, m) ==
    CASE IsMapKind(k) ->
            LET a == MapAdd(r.set, m) IN [r |-> WithMap(r, a.set), ret |-> a.ret]
      [] k = "SyncMap" ->
            LET a == SyncMapAdd(r.set, m) IN [r |-> WithMap(r, a.set), ret |-> a.ret]
      [] IsOrderedKind(k) ->
            LET a == OrderedAdd(AsOrdered(r), m) IN [r |-> WithOrdered(r, a.o), ret |-> a.ret]

\* s.Remove(m)
SetRemove(k, r, m) ==
    CASE IsMapKind(k) ->
            LET a == MapRemove(r.set, m) IN [r |-> WithMap(r, a.set), ret |-> a.ret]
      [] k = "SyncMap" ->
            LET a == SyncMapRemove(r.set, m) IN [r |-> WithMap(r, a.set), ret |-> a.ret]
      [] IsOrderedKind(k) ->
            LET a == OrderedRemove(AsOrdered(r), m) IN [r |-> WithOrdered(r, a.o), ret |-> a.ret]

\* s.Clear(); SyncMap counts with Range and then clears, as Map does.
SetClear(k, r) ==
    IF IsOrderedKind(k)
    THEN LET a == OrderedClear(AsOrdered(r)) IN [r |-> WithOrdered(r, a.o), ret |-> a.ret]
    ELSE LET a == MapClear(r.set) IN [r |-> WithMap(r, a.set), ret |-> a.ret]

\* s.Pop(): the outcomes the map range order allows.
SetPop(k, r) ==
    IF IsOrderedKind(k)
    THEN {[r |-> WithOrdered(r, a.o), m |-> a.m, ok |-> a.ok] : a \in OrderedPop(AsOrdered(r))}
    ELSE {[r |-> WithMap(r, a.set), m |-> a.m, ok |-> a.ok] : a \in MapPop(r.set)}

\* The sequences one full s.Iterator pass may yield.
SetIterator(k, r) ==
    IF IsOrderedKind(k) THEN {OrderedIterator(AsOrdered(r))} ELSE MapIterator(r.set)

\* s.Clone(): New...From(s.Iterator)
SetClone(k, r) ==
    IF IsOrderedKind(k)
    THEN {WithOrdered(NewEmptyRecv, OrderedClone(AsOrdered(r)))}
    ELSE {WithMap(NewEmptyRecv, c) : c \in MapClone(r.set)}

\* AppendSeq(s, seq): the set afterwards and the number of elements added.
RECURSIVE AppendSeq(_, _, _)
AppendSeq(k, r, seq) ==
    IF seq = <<>> THEN [r |-> r, n |-> 0]
    ELSE LET a == SetAdd(k, r, Head(seq))
             rest == AppendSeq(k, a.r, Tail(seq))
         IN  [r |-> rest.r, n |-> rest.n + (IF a.ret THEN 1 ELSE 0)]

\* RemoveSeq(s, seq)
RECURSIVE RemoveSeq(_, _, _)
RemoveSeq(k, r, seq) ==
    IF seq = <<>> THEN [r |-> r, n |-> 0]
    ELSE LET a == SetRemove(k, r, Head(seq))
             rest == RemoveSeq(k, a.r, Tail(seq))
         IN  [r |-> rest.r, n |-> rest.n + (IF a.ret THEN 1 ELSE 0)]

\* The loop of ContainsSeq: false at the first element of seq that s does
\* not contain.
RECURSIVE ContainsSeqLoop(_, _, _)
ContainsSeqLoop(k, r, seq) ==
    IF seq = <<>> THEN TRUE
    ELSE IF ~SetContains(k, r, Head(seq)) THEN FALSE
    ELSE ContainsSeqLoop(k, r, Tail(seq))

ContainsSeq_NoEmptyCase(k, r, seq) == seq # <<>> /\ ContainsSeqLoop(k, r, seq)

\* ContainsSeq(s, seq): noitems stays true only if the loop body never ran.
ContainsSeq(k, r, seq) ==
    LET noitems == (seq = <<>>)
    IN  IF ~ContainsSeqLoop(k, r, seq) THEN FALSE
        ELSE (SetCardinality(k, r) = 0 /\ noitems) \/ ~noitems

\* ------------------------------------------- goroutines, before any call

Goroutines == 1..NumG

Keys == 1..MaxKey

\* No set has been handed to a set function.
NoObjects ==
    /\ objs = [x \in {"a", "b", "c"} |-> [kind |-> "none", ref |-> 0]]
    /\ heap = [i \in {} |-> 0]

\* A goroutine that is in no method of the set.
NoOp == [name |-> "none", during |-> FALSE, woken |-> FALSE]

\* A range loop that has not started.
NoCursor == [n |-> 0, left |-> {}]

\* No goroutine has called anything: the mutex is free, nobody waits.
NoCalls ==
    /\ pc = [g \in Goroutines |-> "idle"]
    /\ call = [g \in Goroutines |-> NoOp]
    /\ calls = 0
    /\ writer = None
    /\ readers = [g \in Goroutines |-> 0]
    /\ iterating = FALSE
    /\ waiters = {}
    /\ cur = [g \in Goroutines |-> NoCursor]
    /\ ev = [exit |-> "none", delayed |-> FALSE]

\* ------------------------------------ one goroutine driving one set

\* What an operation leaves in `last`.
Done(op, m, ok, n) ==
    [op |-> op, m |-> m, ok |-> ok, n |-> n, pre |-> Recv, seq |-> <<>>]

Store(r) ==
    /\ set' = r.set
    /\ idx' = r.idx
    /\ values' = r.values

SeqInit ==
    /\ kind \in SeqKinds
    /\ set = {}
    /\ idx = EmptyIdx
    /\ values = <<>>
    /\ stateI = {}
    /\ last = [op |-> "New", m |-> None, ok |-> FALSE, n |-> 0, pre |-> NewEmptyRecv,
                seq |-> <<>>]
    /\ NoCalls
    /\ NoObjects

SeqAdd ==
    \E m \in Elems :
        LET a == SetAdd(kind, Recv, m)
        IN  /\ Store(a.r)
            /\ stateI' = stateI \cup {m}
            /\ last' = Done("Add", m, a.ret, 0)
            /\ UNCHANGED <<kind, cvars, avars>>

SeqRemove ==
    \E m \in Elems :
        LET a == SetRemove(kind, Recv, m)
        IN  /\ Store(a.r)
            /\ stateI' = stateI \ {m}
            /\ last' = Done("Remove", m, a.ret, 0)
            /\ UNCHANGED <<kind, cvars, avars>>

SeqClear ==
    LET a == SetClear(kind, Recv)
    IN  /\ Store(a.r)
        /\ stateI' = {}
        /\ last' = Done("Clear", None, FALSE, a.ret)
        /\ UNCHANGED <<kind, cvars, avars>>

SeqPop ==
    \E a \in SetPop(kind, Recv) :
        /\ Store(a.r)
        /\ stateI' = IF a.ok THEN stateI \ {a.m} ELSE stateI
        /\ last' = Done("Pop", a.m, a.ok, 0)
        /\ UNCHANGED <<kind, cvars, avars>>

SeqSort ==
    /\ IsOrderedKind(kind)
    /\ Store(WithOrdered(Recv, OrderedSort(AsOrdered(Recv))))
    /\ last' = Done("Sort", None, FALSE, 0)
    /\ UNCHANGED <<kind, stateI, cvars, avars>>

\* sm.set = sm.set.Clone()
SeqClone ==
    \E c \in SetClone(kind, Recv) :
        /\ Store(c)
        /\ last' = Done("Clone", None, FALSE, 0)
        /\ UNCHANGED <<kind, stateI, cvars, avars>>

SeqAppendSeq ==
    \E seq \in SeqsUpTo(Keys, MaxSeqLen) :
        LET a == AppendSeq(kind, Recv, seq)
        IN  /\ Store(a.r)
            /\ stateI' = stateI \cup Range(seq)
            /\ last' = [Done("AppendSeq", None, FALSE, a.n) EXCEPT !.seq = seq]
            /\ UNCHANGED <<kind, cvars, avars>>

SeqRemoveSeq ==
    \E seq \in SeqsUpTo(Keys, MaxSeqLen) :
        LET a == RemoveSeq(kind, Recv, seq)
        IN  /\ Store(a.r)
            /\ stateI' = stateI \ Range(seq)
            /\ last' = Done("RemoveSeq", None, FALSE, a.n)
            /\ UNCHANGED <<kind, cvars, avars>>

\* ContainsSeq(s, seq)
SeqContainsSeq ==
    /\ \E seq \in SeqsUpTo(Keys, MaxSeqLen) :
           last' = [Done("ContainsSeq", None, ContainsSeq(kind, Recv, seq), 0)
                        EXCEPT !.seq = seq]
    /\ UNCHANGED <<kind, dvars, stateI, cvars, avars>>

\* The positions At is asked for: negative, in range and past the end.
Positions == (0 - 1)..MaxElem

\* s.At(i)
SeqAt ==
    /\ IsOrderedKind(kind)
    /\ \E i \in Positions :
           LET a == OrderedAt(AsOrdered(Recv), i)
           IN  last' = Done("At", a.m, a.found, i)
    /\ UNCHANGED <<kind, dvars, stateI, cvars, avars>>

\* s.Index(m)
SeqIndex ==
    /\ IsOrderedKind(kind)
    /\ \E m \in Elems :
           last' = Done("Index", m, FALSE, OrderedIndex(AsOrdered(Recv), m))
    /\ UNCHANGED <<kind, dvars, stateI, cvars, avars>>

SeqNext ==
    \/ SeqContainsSeq
    \/ SeqAt
    \/ SeqIndex
    \/ SeqAdd
    \/ SeqRemove
    \/ SeqClear
    \/ SeqPop
    \/ SeqSort
    \/ SeqClone
    \/ SeqAppendSeq
    \/ SeqRemoveSeq

SeqSpec == SeqInit /\ [][SeqNext]_vars

\* ------------------------------------------- properties of one goroutine

Members(k, r) == {m \in Elems : SetContains(k, r, m)}

BoolInt(b) == IF b THEN 1 ELSE 0

\* C5: for the Ordered set (bare or behind LockedOrdered), in every state
\* reached by Add, Remove, Clear, Pop and Sort the keys of idx are exactly
\* the elements of values, values holds no duplicates, Index(At(i)) == i
\* for every position i and At(Index(e)) == e for every present element e.
OrderedRoundTrip ==
    IsOrderedKind(kind) =>
        LET o == AsOrdered(Recv)
        IN  /\ DOMAIN idx = Range(values)
            /\ NoDup(values)
            /\ \A i \in 0..(OrderedCardinality(o) - 1) :
                   /\ OrderedAt(o, i).found
                   /\ OrderedIndex(o, OrderedAt(o, i).m) = i
            /\ \A e \in DOMAIN idx :
                   OrderedAt(o, OrderedIndex(o, e)) = [m |-> e, found |-> TRUE]

\* A Remove has just renumbered at least one element of an Ordered set.
OrderedRoundTripWitness ==
    /\ kind = "Ordered"
    /\ last.op = "Remove"
    /\ last.ok
    /\ last.pre.idx[last.m] < Len(values)

\* C6: Ordered.Remove(e) of a present element at position d deletes that
\* slot alone: lower positions are kept, higher ones decrease by one, the
\* order of the rest is unchanged and Index(e) becomes -1; and removing 2
\* from [0,1,2,3,4] gives [0,1,3,4] with Index(3) == 2.
RemoveRenumbers ==
    /\ (IsOrderedKind(kind) /\ last.op = "Remove" /\ last.ok) =>
            LET pre == AsOrdered(last.pre)
                now == AsOrdered(Recv)
                d == pre.idx[last.m]
            IN  /\ pre.values[d + 1] = last.m
                /\ Len(values) = Len(pre.values) - 1
                /\ \A i \in 0..(Len(pre.values) - 1) :
                       /\ i < d => OrderedAt(now, i).m = pre.values[i + 1]
                       /\ i > d => OrderedAt(now, i - 1).m = pre.values[i + 1]
                /\ \A e \in DOMAIN pre.idx :
                       /\ pre.idx[e] < d => OrderedIndex(now, e) = pre.idx[e]
                       /\ pre.idx[e] > d => OrderedIndex(now, e) = pre.idx[e] - 1
                /\ OrderedIndex(now, last.m) = -1
    /\ LET r == OrderedRemove(NewOrderedFrom(<<0, 1, 2, 3, 4>>), 2)
       IN  /\ r.ret
           /\ r.o.values = <<0, 1, 3, 4>>
           /\ OrderedIndex(r.o, 3) = 2

\* A Remove took an element with neighbours on both sides.
RemoveRenumbersWitness ==
    /\ IsOrderedKind(kind)
    /\ last.op = "Remove"
    /\ last.ok
    /\ last.pre.idx[last.m] > 0
    /\ last.pre.idx[last.m] < Len(values)

\* C7: for every set kind driven by one goroutine, Add(e) returns true iff
\* e was absent; afterwards e is contained, the membership of every other
\* element is unchanged and the cardinality has grown by one exactly when
\* true was returned; and an Add(e) of a contained e returns false and
\* changes nothing (neither cardinality nor any position).
AddContract ==
    /\ last.op = "Add" =>
            /\ last.ok = ~SetContains(kind, last.pre, last.m)
            /\ SetContains(kind, Recv, last.m)
            /\ Members(kind, Recv) \ {last.m} = Members(kind, last.pre) \ {last.m}
            /\ SetCardinality(kind, Recv) =
                   SetCardinality(kind, last.pre) + BoolInt(last.ok)
    /\ \A e \in Elems :
            SetContains(kind, Recv, e) =>
                LET again == SetAdd(kind, Recv, e)
                IN  /\ ~again.ret
                    /\ again.r = Recv

\* An Add of an element that was already there has returned false.
AddContractWitness ==
    /\ last.op = "Add"
    /\ ~last.ok
    /\ SetCardinality(kind, Recv) >= 2

\* C8: for every set kind driven by one goroutine, Remove(e) returns true
\* iff e was present; afterwards e is not contained, the membership of
\* every other element is unchanged and the cardinality has shrunk by one
\* exactly when true was returned.
RemoveContract ==
    last.op = "Remove" =>
        /\ last.ok = SetContains(kind, last.pre, last.m)
        /\ ~SetContains(kind, Recv, last.m)
        /\ Members(kind, Recv) \ {last.m} = Members(kind, last.pre) \ {last.m}
        /\ SetCardinality(kind, Recv) =
               SetCardinality(kind, last.pre) - BoolInt(last.ok)

\* A Remove has taken one element out of a set that keeps others.
RemoveContractWitness ==
    /\ last.op = "Remove"
    /\ last.ok
    /\ SetCardinality(kind, Recv) >= 1

\* C9: for every set kind, in every state reached by Add, Remove, Clear,
\* Pop, Clone, AppendSeq and RemoveSeq, a full Iterator pass yields
\* Cardinality() elements, none of them twice, and exactly the elements of
\* the reference model (those added and not removed since).
IterationAgreesWithModel ==
    \A ys \in SetIterator(kind, Recv) :
        /\ Len(ys) = SetCardinality(kind, Recv)
        /\ NoDup(ys)
        /\ Range(ys) = stateI

\* A RemoveSeq removed two elements and left a non-empty set.
IterationAgreesWithModelWitness ==
    /\ last.op = "RemoveSeq"
    /\ last.n = 2
    /\ SetCardinality(kind, Recv) >= 1

\* ------------------------------------------- goroutines sharing one set

\* The wrappers: lockedMap and LockedOrderedCond pair the RWMutex with a
\* sync.Cond and an iterating flag; Locked and LockedOrdered use the
\* RWMutex alone.
ConcKinds == {"lockedMap", "LockedOrderedCond", "Locked", "LockedOrdered"}

HasCond(k) == k \in {"lockedMap", "LockedOrderedCond", "LockedMap"}

\* LockedMap pairs its Cond with a sync.Mutex: every method takes the one
\* exclusive lock.
HasMutex(k) == k = "LockedMap"

\* Methods that take the write lock and change the delegate.
Mutators(k) ==
    {"Add", "Remove", "Clear"}
        \cup (IF k \in {"LockedOrderedCond", "LockedMap"} THEN {} ELSE {"Pop"})
        \cup (IF k = "LockedOrdered" THEN {"Sort"} ELSE {})

\* Methods that take the read lock for one look at the delegate.
Reads(k) == {"Contains", "Cardinality"}

\* Methods that run a range loop over the delegate.
Passes(k) ==
    {"Iterator", "Clone"}
        \cup (IF k = "LockedOrdered" THEN {"Ordered", "Backwards"} ELSE {})

Methods(k) == Mutators(k) \cup Reads(k) \cup Passes(k)

\* The side of the RWMutex a method takes: "W" is Lock, "R" is RLock.
LockMode(k, name) ==
    IF name \in Mutators(k) THEN "W"
    ELSE IF name \in Reads(k) THEN (IF HasMutex(k) THEN "W" ELSE "R")
    ELSE IF HasCond(k) THEN "W" ELSE "R"

\* Methods that begin with: if s.iterating { s.Cond.Wait() }.
WaitsIfIterating(k, name) ==
    HasCond(k) /\ (name \in Mutators(k) \/ (HasMutex(k) /\ name \in Reads(k)))

\* What the consumer of a pass does with an element.
Responses == {"continue", "stop", "panic"}

\* A goroutine is inside the range loop of a pass.
InPass(g) == pc[g] = "iter"

PassInProgress == \E g \in Goroutines : InPass(g)

\* slices.Values of the test's initial elements, highest first.
InitialSeq == [i \in 1..MaxKey |-> MaxKey + 1 - i]

\* NewLockedFrom / NewLockedOrderedFrom of the initial elements.
InitOf(kinds) ==
    /\ kind \in kinds
    /\ LET r == AppendSeq(kind, NewEmptyRecv, InitialSeq).r
       IN  /\ set = r.set
           /\ idx = r.idx
           /\ values = r.values
    /\ stateI = {}
    /\ last = [op |-> "New", m |-> None, ok |-> FALSE, n |-> 0, pre |-> NewEmptyRecv]
    /\ NoCalls
    /\ NoObjects

Init == InitOf(ConcKinds)

\* RWMutex.Lock gets past rw.w only when no other writer holds or awaits it.
WriteSideFree_Ignored == TRUE
WriteSideFree == writer = None

\* RWMutex.Lock returns only when the readers have left.
ReadersDrained_Ignored == TRUE
ReadersDrained == \A g \in Goroutines : readers[g] = 0

\* RWMutex.RLock is held up by a writer that holds the lock or awaits it.
CanRLock == writer = None

\* Where the range loop starts: the map's keys in no order, or position 0
\* of values.
StartCursor == [n |-> 0, left |-> IF IsOrderedKind(kind) THEN {} ELSE set]

\* A goroutine calls a method of the shared set.
Call(g, names) ==
    /\ pc[g] = "idle"
    /\ calls < MaxCalls
    /\ \E nm \in names \cap Methods(kind) :
           call' = [call EXCEPT ![g] = [name |-> nm, during |-> PassInProgress, woken |-> FALSE]]
    /\ pc' = [pc EXCEPT ![g] = "acquire"]
    /\ calls' = calls + 1
    /\ UNCHANGED <<kind, dvars, stateI, last, avars, writer, readers, iterating, waiters, cur, ev>>

\* Lock(), first half: take the write side, turning new readers away.
Lock(g) ==
    /\ pc[g] = "acquire"
    /\ LockMode(kind, call[g].name) = "W"
    /\ WriteSideFree
    /\ writer' = g
    /\ pc' = [pc EXCEPT ![g] = "drain"]
    /\ UNCHANGED <<kind, dvars, stateI, last, avars, call, calls, readers, iterating, waiters, cur, ev>>

\* Lock(), second half, and what the method does on its return: a mutator
\* of a cond-var wrapper that finds iterating set goes to Wait, which
\* unlocks; Iterator sets iterating and enters its loop with the lock held.
LockAcquired(g) ==
    /\ pc[g] = "drain"
    /\ ReadersDrained
    /\ IF WaitsIfIterating(kind, call[g].name) /\ iterating /\ ~call[g].woken
       THEN /\ writer' = None
            /\ waiters' = waiters \cup {g}
            /\ pc' = [pc EXCEPT ![g] = "wait"]
            /\ UNCHANGED <<iterating, cur>>
       ELSE IF call[g].name \in Passes(kind)
       THEN /\ iterating' = TRUE
            /\ cur' = [cur EXCEPT ![g] = StartCursor]
            /\ pc' = [pc EXCEPT ![g] = "iter"]
            /\ UNCHANGED <<writer, waiters>>
       ELSE /\ pc' = [pc EXCEPT ![g] = "held"]
            /\ UNCHANGED <<writer, waiters, iterating, cur>>
    /\ UNCHANGED <<kind, dvars, stateI, last, avars, call, calls, readers, ev>>

\* RLock() of Contains, Cardinality, Iterator, Ordered, Backwards, and the
\* outer RLock of LockedOrdered.Clone.
RLock(g) ==
    /\ pc[g] = "acquire"
    /\ LockMode(kind, call[g].name) = "R"
    /\ CanRLock
    /\ readers' = [readers EXCEPT ![g] = @ + 1]
    /\ IF call[g].name = "Clone" /\ kind = "LockedOrdered"
       THEN pc' = [pc EXCEPT ![g] = "cloning"] /\ UNCHANGED cur
       ELSE IF call[g].name \in Passes(kind)
       THEN pc' = [pc EXCEPT ![g] = "iter"] /\ cur' = [cur EXCEPT ![g] = StartCursor]
       ELSE pc' = [pc EXCEPT ![g] = "held"] /\ UNCHANGED cur
    /\ UNCHANGED <<kind, dvars, stateI, last, avars, call, calls, writer, iterating, waiters, ev>>

\* LockedOrdered.Clone, holding its read lock, runs
\* NewLockedOrderedFrom(s.Iterator): s.Iterator takes the read lock again.
CloneIterator(g) ==
    /\ pc[g] = "cloning"
    /\ CanRLock
    /\ readers' = [readers EXCEPT ![g] = @ + 1]
    /\ pc' = [pc EXCEPT ![g] = "iter"]
    /\ cur' = [cur EXCEPT ![g] = StartCursor]
    /\ UNCHANGED <<kind, dvars, stateI, last, avars, call, calls, writer, iterating, waiters, ev>>

\* The range loop of s.set.Iterator has an element still to yield.
HasNext(g) ==
    IF IsOrderedKind(kind) THEN cur[g].n < Len(values) ELSE cur[g].left # {}

\* The elements the loop may yield next: the map's range order is free,
\* values is walked forwards, and backwards by Backwards.
NextElems(g) ==
    IF ~IsOrderedKind(kind) THEN cur[g].left
    ELSE IF call[g].name = "Backwards" THEN {values[Len(values) - cur[g].n]}
    ELSE {values[cur[g].n + 1]}

\* The delegate's method, run with the lock held.
Delegate(g) ==
    CASE call[g].name = "Add" ->
            \E m \in Keys : Store(SetAdd(kind, Recv, m).r)
      [] call[g].name = "Remove" ->
            \E m \in Keys : Store(SetRemove(kind, Recv, m).r)
      [] call[g].name = "Clear" -> Store(SetClear(kind, Recv).r)
      [] call[g].name = "Pop" -> \E a \in SetPop(kind, Recv) : Store(a.r)
      [] call[g].name = "Sort" -> Store(WithOrdered(Recv, OrderedSort(AsOrdered(Recv))))
      [] OTHER -> UNCHANGED dvars

\* defer s.Unlock() of a mutator, defer s.RUnlock() of a read.
Unlock_Forgotten(g) == UNCHANGED <<writer, readers>>
Unlock(g) ==
    IF LockMode(kind, call[g].name) = "W"
    THEN writer' = None /\ UNCHANGED readers
    ELSE readers' = [readers EXCEPT ![g] = @ - 1] /\ UNCHANGED writer

\* The goroutine's method was called from the yield callback of a pass the
\* goroutine has in progress.
InCallback(g) == cur[g] # NoCursor /\ pc[g] # "iter"

\* A mutator or a read runs on the delegate and the deferred unlock
\* follows; a method called from a yield callback returns into the loop.
Apply(g) ==
    /\ pc[g] = "held"
    /\ Delegate(g)
    /\ Unlock(g)
    /\ pc' = [pc EXCEPT ![g] = IF InCallback(g) THEN "iter" ELSE "idle"]
    /\ call' = [call EXCEPT ![g] = IF InCallback(g) THEN [NoOp EXCEPT !.name = "Iterator"]
                                   ELSE NoOp]
    /\ ev' = IF call[g].name \in Mutators(kind) /\ call[g].during
             THEN [ev EXCEPT !.delayed = TRUE] ELSE ev
    /\ UNCHANGED <<kind, stateI, last, avars, calls, iterating, waiters, cur>>

\* The read locks a pass gives back when it ends: Iterator's, and under it
\* the one LockedOrdered.Clone took.
RLocksHeld(g) == IF call[g].name = "Clone" /\ kind = "LockedOrdered" THEN 2 ELSE 1

\* A pass that unlocks on return but not when the consumer panics.
PassExit_NotDeferred(g, how) ==
    /\ pc' = [pc EXCEPT ![g] = "idle"]
    /\ call' = [call EXCEPT ![g] = NoOp]
    /\ IF how = "panic"
       THEN UNCHANGED <<iterating, waiters, writer, readers>>
       ELSE IF HasCond(kind)
       THEN /\ iterating' = FALSE
            /\ waiters' = {}
            /\ writer' = None
            /\ UNCHANGED readers
       ELSE /\ readers' = [readers EXCEPT ![g] = @ - RLocksHeld(g)]
            /\ UNCHANGED <<iterating, waiters, writer>>
    /\ cur' = [cur EXCEPT ![g] = NoCursor]
    /\ ev' = [exit |-> how, delayed |-> FALSE]
    /\ UNCHANGED <<kind, dvars, stateI, last, avars, calls>>

\* The deferred function of Iterator. On a cond-var wrapper it clears
\* iterating, Broadcast sends every waiter back to Lock inside Wait (the
\* caller of Wait does not look at iterating again), and L is unlocked. On
\* an RWMutex wrapper it is RUnlock, and LockedOrdered.Clone's own deferred
\* RUnlock follows.
PassExit(g, how) ==
    /\ pc' = [h \in Goroutines |->
                IF h = g THEN "idle"
                ELSE IF HasCond(kind) /\ h \in waiters THEN "acquire" ELSE pc[h]]
    /\ call' = [h \in Goroutines |->
                  IF h = g THEN NoOp
                  ELSE IF HasCond(kind) /\ h \in waiters
                       THEN [call[h] EXCEPT !.woken = TRUE] ELSE call[h]]
    /\ IF HasCond(kind)
       THEN /\ iterating' = FALSE
            /\ waiters' = {}
            /\ writer' = None
            /\ UNCHANGED readers
       ELSE /\ readers' = [readers EXCEPT ![g] = @ - RLocksHeld(g)]
            /\ UNCHANGED <<iterating, waiters, writer>>
    /\ cur' = [cur EXCEPT ![g] = NoCursor]
    /\ ev' = [exit |-> how, delayed |-> FALSE]
    /\ UNCHANGED <<kind, dvars, stateI, last, avars, calls>>

\* The loop yields an element; the consumer asks for more, returns false
\* or panics. Clone's consumer adds to the new set and always asks for more.
Yield(g, responses) ==
    /\ pc[g] = "iter"
    /\ HasNext(g)
    /\ \E m \in NextElems(g) :
       \E r \in (IF call[g].name = "Clone" THEN {"continue"} ELSE responses) :
           IF r = "continue"
           THEN /\ cur' = [cur EXCEPT ![g] = [n |-> @.n + 1, left |-> @.left \ {m}]]
                /\ UNCHANGED <<kind, dvars, stateI, last, avars, pc, call, calls, writer,
                               readers, iterating, waiters, ev>>
           ELSE PassExit(g, r)

\* The loop is exhausted and Iterator returns.
Return(g) ==
    /\ pc[g] = "iter"
    /\ ~HasNext(g)
    /\ PassExit(g, "done")

Step(g) ==
    \/ Call(g, Methods(kind))
    \/ Lock(g)
    \/ LockAcquired(g)
    \/ RLock(g)
    \/ CloneIterator(g)
    \/ Apply(g)
    \/ Yield(g, Responses)
    \/ Return(g)

Next == \E g \in Goroutines : Step(g)

Spec == Init /\ [][Next]_vars

\* The methods of the concurrency test: Add, Remove, Contains, Cardinality
\* and Iterator.
TestMethods == {"Add", "Remove", "Contains", "Cardinality", "Iterator"}

FairStep(g) ==
    \/ Call(g, TestMethods)
    \/ Lock(g)
    \/ LockAcquired(g)
    \/ RLock(g)
    \/ Apply(g)
    \/ Yield(g, Responses)
    \/ Return(g)

FairNext == \E g \in Goroutines : FairStep(g)

\* Every goroutine that can take a step is scheduled in the end.
FairSpec == Init /\ [][FairNext]_vars /\ \A g \in Goroutines : WF_vars(FairStep(g))

AllDone == calls = MaxCalls /\ \A g \in Goroutines : pc[g] = "idle"

\* ------------------------------------- properties of the shared wrappers

IsMutator(g) == call[g].name \in Mutators(kind)

\* A mutator is inside the delegate.
Mutating(g) == pc[g] = "held" /\ IsMutator(g)

\* A read or a pass is inside the delegate.
Reading(g) == InPass(g) \/ (pc[g] = "held" /\ ~IsMutator(g))

\* C1: on the cond-var wrappers (lockedMap, cond-var LockedOrdered) no
\* mutator is inside the delegate while a pass of another goroutine is in
\* progress, and no step taken while a pass is in progress changes the
\* delegate's contents: a mutation falls wholly before or wholly after it.
CondPassExcludesMutation ==
    /\ [](HasCond(kind) =>
            \A g, h \in Goroutines : ~(InPass(g) /\ Mutating(h)))
    /\ [][(HasCond(kind) /\ PassInProgress) => UNCHANGED dvars]_vars

CondPassExcludesMutationWitness ==
    /\ HasCond(kind)
    /\ ev.exit = "done"
    /\ ev.delayed
    /\ Members(kind, Recv) # Keys

\* C2: on the RWMutex wrappers Locked and LockedOrdered a goroutine inside
\* a pass holds the read lock, a mutator inside the delegate is alone there
\* (no other mutator, no read, no pass), and no step taken while a pass is
\* in progress changes the delegate's contents.
RWPassExcludesMutation ==
    /\ [](~HasCond(kind) =>
            /\ \A g \in Goroutines : InPass(g) => readers[g] > 0
            /\ \A g, h \in Goroutines :
                   (g # h /\ Mutating(g)) => ~(Mutating(h) \/ Reading(h)))
    /\ [][(~HasCond(kind) /\ PassInProgress) => UNCHANGED dvars]_vars

RWPassExcludesMutationWitness ==
    /\ ~HasCond(kind)
    /\ ev.delayed
    /\ ev.exit = "stop"
    /\ Members(kind, Recv) # Keys

\* C3: on Locked, LockedOrdered and lockedMap, goroutines that call Add,
\* Remove, Contains, Cardinality and Iterator, and are scheduled fairly,
\* all return from all their calls.
NoDeadlock ==
    <>(kind \in {"Locked", "LockedOrdered", "lockedMap"} => AllDone)

NoDeadlockWitness ==
    /\ kind \in {"Locked", "LockedOrdered", "lockedMap"}
    /\ AllDone
    /\ ev.exit = "done"
    /\ ev.delayed

\* C4: on the cond-var wrappers the step that ends a pass, by exhaustion,
\* by the consumer's false or by its panic, leaves iterating false, no
\* goroutine in Wait and the lock free, and keeps every other goroutine's
\* call; and a mutator called during a pass returns in the end.
IteratorExitCleansUp ==
    /\ [][\A g \in Goroutines :
            (HasCond(kind) /\ pc[g] = "iter" /\ pc'[g] # "iter") =>
                /\ iterating' = FALSE
                /\ waiters' = {}
                /\ writer' = None
                /\ \A h \in Goroutines \ {g} :
                       /\ call'[h].name = call[h].name
                       /\ pc[h] # "idle" => pc'[h] \in {pc[h], "acquire"}]_vars
    /\ \A h \in Goroutines :
           (HasCond(kind) /\ IsMutator(h) /\ call[h].during) ~> (pc[h] = "idle")

IteratorExitCleansUpWitness ==
    /\ HasCond(kind)
    /\ ev.exit = "panic"
    /\ ev.delayed
    /\ ~iterating
    /\ writer = None

\* C10: LockedOrdered.Clone never deadlocks: while a goroutine is inside
\* Clone, some goroutine that is inside a method can take a step.
CloneNeverDeadlocks ==
    \A g \in Goroutines :
        (kind = "LockedOrdered" /\ call[g].name = "Clone" /\ pc[g] # "idle") =>
            \E h \in Goroutines : pc[h] # "idle" /\ ENABLED Step(h)

\* ------------------------------------------------ Subset(a, a) on one set

\* The kinds Subset is run on: the bare Map and the four wrappers.
SubsetKinds == {"Map"} \cup ConcKinds

\* New...From(seq) of any short sequence of keys.
SubsetInit ==
    /\ kind \in SubsetKinds
    /\ \E seq \in SeqsUpTo(Keys, MaxKey) :
           LET r == AppendSeq(kind, NewEmptyRecv, seq).r
           IN  /\ set = r.set
               /\ idx = r.idx
               /\ values = r.values
    /\ stateI = {}
    /\ last = [op |-> "New", m |-> None, ok |-> FALSE, n |-> 0, pre |-> NewEmptyRecv]
    /\ NoCalls
    /\ NoObjects

\* A goroutine is inside Subset.
InSubset(g) == pc[g] \in {"sub_card_a", "sub_card_b", "sub_lock", "sub_iter", "sub_cb"}

\* RLock() as a wrapper's Contains and Cardinality call it; the bare Map
\* has no lock.
ReadAllowed == kind = "Map" \/ CanRLock

\* Subset(a, a) is called.
CallSubset(g) ==
    /\ pc[g] = "idle"
    /\ calls < MaxCalls
    /\ call' = [call EXCEPT ![g] = [name |-> "Subset", during |-> PassInProgress, woken |-> FALSE]]
    /\ pc' = [pc EXCEPT ![g] = "sub_card_a"]
    /\ calls' = calls + 1
    /\ UNCHANGED <<kind, dvars, stateI, last, avars, writer, readers, iterating, waiters, cur, ev>>

\* if a.Cardinality() > b.Cardinality() { return false }: each Cardinality
\* takes the read lock, reads and gives the lock back.
SubsetCardinality(g) ==
    /\ pc[g] \in {"sub_card_a", "sub_card_b"}
    /\ ReadAllowed
    /\ IF pc[g] = "sub_card_a"
       THEN /\ cur' = [cur EXCEPT ![g] = [n |-> SetCardinality(kind, Recv), left |-> {}]]
            /\ pc' = [pc EXCEPT ![g] = "sub_card_b"]
            /\ UNCHANGED <<call, ev>>
       ELSE IF cur[g].n > SetCardinality(kind, Recv)
       THEN /\ pc' = [pc EXCEPT ![g] = "idle"]
            /\ call' = [call EXCEPT ![g] = NoOp]
            /\ cur' = [cur EXCEPT ![g] = NoCursor]
            /\ ev' = [exit |-> "stop", delayed |-> FALSE]
       ELSE /\ pc' = [pc EXCEPT ![g] = "sub_lock"]
            /\ UNCHANGED <<call, cur, ev>>
    /\ UNCHANGED <<kind, dvars, stateI, last, avars, calls, writer, readers, iterating, waiters>>

\* for k := range a.Iterator: Iterator takes its lock, Cond.L.Lock() and
\* iterating = true on a cond-var wrapper, RLock() on an RWMutex wrapper.
SubsetIterator(g) ==
    /\ pc[g] = "sub_lock"
    /\ IF kind = "Map" THEN UNCHANGED <<writer, readers, iterating>>
       ELSE IF HasCond(kind)
       THEN /\ WriteSideFree
            /\ ReadersDrained
            /\ writer' = g
            /\ iterating' = TRUE
            /\ UNCHANGED readers
       ELSE /\ CanRLock
            /\ readers' = [readers EXCEPT ![g] = @ + 1]
            /\ UNCHANGED <<writer, iterating>>
    /\ cur' = [cur EXCEPT ![g] = StartCursor]
    /\ pc' = [pc EXCEPT ![g] = "sub_iter"]
    /\ UNCHANGED <<kind, dvars, stateI, last, avars, call, calls, waiters, ev>>

\* Iterator returns to Subset: the deferred function of a wrapper's
\* Iterator runs; the bare Map has nothing to release.
SubsetReturn(g, how) ==
    IF kind = "Map"
    THEN /\ pc' = [pc EXCEPT ![g] = "idle"]
         /\ call' = [call EXCEPT ![g] = NoOp]
         /\ cur' = [cur EXCEPT ![g] = NoCursor]
         /\ ev' = [exit |-> how, delayed |-> FALSE]
         /\ UNCHANGED <<kind, dvars, stateI, last, avars, calls, writer, readers, iterating, waiters>>
    ELSE PassExit(g, how)

\* The loop yields the next element to Subset's loop body, or is exhausted
\* and Subset returns true.
SubsetYield(g) ==
    /\ pc[g] = "sub_iter"
    /\ IF HasNext(g)
       THEN /\ pc' = [pc EXCEPT ![g] = "sub_cb"]
            /\ UNCHANGED <<kind, dvars, stateI, last, avars, call, calls, writer, readers,
                           iterating, waiters, cur, ev>>
       ELSE SubsetReturn(g, "done")

\* if !b.Contains(k) { return false }, with b the set being iterated:
\* Contains takes the read lock of the wrapper whose Iterator is running.
SubsetContains(g) ==
    /\ pc[g] = "sub_cb"
    /\ ReadAllowed
    /\ \E k \in NextElems(g) :
           IF SetContains(kind, Recv, k)
           THEN /\ cur' = [cur EXCEPT ![g] = [n |-> @.n + 1, left |-> @.left \ {k}]]
                /\ pc' = [pc EXCEPT ![g] = "sub_iter"]
                /\ UNCHANGED <<kind, dvars, stateI, last, avars, call, calls, writer, readers,
                               iterating, waiters, ev>>
           ELSE SubsetReturn(g, "stop")

SubsetStep(g) ==
    \/ CallSubset(g)
    \/ SubsetCardinality(g)
    \/ SubsetIterator(g)
    \/ SubsetYield(g)
    \/ SubsetContains(g)

SubsetNext == \E g \in Goroutines : SubsetStep(g)

SubsetSpec == SubsetInit /\ [][SubsetNext]_vars

\* C11: on a non-empty lockedMap Subset(a, a) terminates and returns true:
\* a goroutine inside Subset can always be brought forward by a step of a
\* goroutine that is inside Subset, and no call of Subset returns false.
SubsetOfSelfReturnsTrue ==
    (kind = "lockedMap" /\ set # {}) =>
        /\ ev.exit # "stop"
        /\ \A g \in Goroutines :
               InSubset(g) => \E h \in Goroutines : InSubset(h) /\ ENABLED SubsetStep(h)

\* Subset(a, a) has returned true on a non-empty bare Map.
SubsetOfSelfOnMap ==
    kind = "Map" /\ set # {} /\ ev.exit = "done"

\* C12: on lockedMap a Contains or Cardinality called by another goroutine
\* while an Iterator pass is in progress does not wait for the pass: its
\* RLock can be taken at once.
ReadsDoNotWaitForPass ==
    \A g, h \in Goroutines :
        (/\ kind = "lockedMap"
         /\ InPass(g)
         /\ call[g].name = "Iterator"
         /\ pc[h] = "acquire"
         /\ call[h].during
         /\ call[h].name \in Reads(kind)) => ENABLED RLock(h)

\* ------------------------------------------ the three cond-var wrappers

\* lockedMap, the cond-var LockedOrdered and the Mutex LockedMap.
CondKinds == {"lockedMap", "LockedOrderedCond", "LockedMap"}

CondInit == InitOf(CondKinds)

CondStep(g) ==
    \/ Call(g, Methods(kind))
    \/ Lock(g)
    \/ LockAcquired(g)
    \/ RLock(g)
    \/ Apply(g)
    \/ Yield(g, Responses)
    \/ Return(g)

CondNext == \E g \in Goroutines : CondStep(g)

CondSpec == CondInit /\ [][CondNext]_vars

\* C13: on a cond-var wrapper at most one goroutine is inside a pass,
\* iterating is set exactly while one is and that goroutine holds the lock,
\* so a second Iterator yields nothing before the first has cleaned up.
OnePassInFlight ==
    /\ \A g, h \in Goroutines : (InPass(g) /\ InPass(h)) => g = h
    /\ iterating <=> PassInProgress
    /\ \A g \in Goroutines : InPass(g) => writer = g

OnePassInFlightWitness ==
    \E g \in Goroutines :
        /\ InPass(g)
        /\ call[g].name = "Iterator"
        /\ call[g].during
        /\ cur[g].n >= 1
        /\ ev.exit # "none"

\* ------------------------------------ more properties of one goroutine

\* C14: Clear returns the cardinality the set had before the call and
\* leaves it empty: Cardinality is 0, Contains is false for every element,
\* Iterator yields nothing, and an Ordered set's index is empty.
ClearContract ==
    last.op = "Clear" =>
        /\ last.n = SetCardinality(kind, last.pre)
        /\ SetCardinality(kind, Recv) = 0
        /\ \A m \in Elems : ~SetContains(kind, Recv, m)
        /\ SetIterator(kind, Recv) = {<<>>}
        /\ IsOrderedKind(kind) => (idx = EmptyIdx /\ values = <<>>)

ClearContractWitness ==
    /\ last.op = "Clear"
    /\ last.n >= 2
    /\ SetCardinality(kind, last.pre) >= 2

\* The position of the first occurrence of e in seq.
FirstAt(seq, e) == CHOOSE i \in 1..Len(seq) : seq[i] = e /\ \A j \in 1..(i - 1) : seq[j] # e

\* C17: on an ordered set AppendSeq (and so construction from a sequence,
\* which is AppendSeq on the empty set) adds only the elements not already
\* present, after all existing elements and in the order of their first
\* occurrence in the sequence, keeps the position of every existing
\* element, and returns the number of elements added; [5,3] then [2,4,1]
\* then [5,6,1] gives [5,3,2,4,1,6].
AppendSeqKeepsOrder ==
    /\ (last.op = "AppendSeq" /\ IsOrderedKind(kind)) =>
           LET old == last.pre.values
               added == SubSeq(values, Len(old) + 1, Len(values))
           IN  /\ Len(values) >= Len(old)
               /\ SubSeq(values, 1, Len(old)) = old
               /\ \A e \in Range(old) : idx[e] = last.pre.idx[e]
               /\ Range(added) = Range(last.seq) \ Range(old)
               /\ NoDup(added)
               /\ \A i, j \in 1..Len(added) :
                      i < j => FirstAt(last.seq, added[i]) < FirstAt(last.seq, added[j])
               /\ last.n = Len(added)
               /\ old = <<>> => AsOrdered(Recv) = NewOrderedFrom(last.seq)
    /\ LET s0 == WithOrdered(NewEmptyRecv, NewOrderedFrom(<<5, 3>>))
           s1 == AppendSeq("Ordered", s0, <<2, 4, 1>>)
           s2 == AppendSeq("Ordered", s1.r, <<5, 6, 1>>)
       IN  /\ s0.values = <<5, 3>>
           /\ s1.n = 3
           /\ s2.n = 1
           /\ s2.r.values = <<5, 3, 2, 4, 1, 6>>

AppendSeqKeepsOrderWitness ==
    /\ last.op = "AppendSeq"
    /\ kind = "Ordered"
    /\ Len(last.pre.values) >= 1
    /\ Len(last.seq) = 2
    /\ last.seq[1] \in Range(last.pre.values)
    /\ last.n = 1
    /\ values = Append(last.pre.values, last.seq[2])

\* C18: At(i) returns found == false exactly when i < 0 or
\* i >= Cardinality() and otherwise the element at position i with
\* found == true; Index(e) returns -1 exactly when e is absent and otherwise
\* the position of e; neither call changes the set.
AtIndexContract ==
    /\ last.op = "At" =>
           /\ Recv = last.pre
           /\ last.ok <=> ~(last.n < 0 \/ last.n >= SetCardinality(kind, Recv))
           /\ last.ok => last.m = values[last.n + 1]
           /\ ~last.ok => last.m = None
    /\ last.op = "Index" =>
           /\ Recv = last.pre
           /\ (last.n = 0 - 1) <=> ~SetContains(kind, Recv, last.m)
           /\ (last.n = 0 - 1) <=> last.m \notin Range(values)
           /\ last.n # 0 - 1 => (last.n \in 0..(Len(values) - 1) /\ values[last.n + 1] = last.m)

AtIndexContractWitness ==
    /\ kind = "LockedOrdered"
    /\ Len(values) = 2
    /\ last.op = "At"
    /\ last.n = SetCardinality(kind, Recv)
    /\ ~last.ok

Ascending(s) == \A i, j \in 1..Len(s) : i < j => s[i] < s[j]

\* C19: Sort leaves membership unchanged, puts values in ascending order and
\* rebuilds idx so that Index(At(i)) == i for every position i; an element
\* added after Sort is appended at the end whatever its value, so the set
\* does not stay sorted.
SortedOnce ==
    last.op = "Sort" =>
        /\ Range(values) = Range(last.pre.values)
        /\ Len(values) = Len(last.pre.values)
        /\ Members(kind, Recv) = Members(kind, last.pre)
        /\ Ascending(values)
        /\ DOMAIN idx = Range(values)
        /\ \A i \in 0..(Len(values) - 1) :
               LET a == OrderedAt(AsOrdered(Recv), i)
               IN  a.found /\ OrderedIndex(AsOrdered(Recv), a.m) = i

AddAfterSortAppends ==
    (last.op = "Sort" /\ last'.op = "Add" /\ last'.ok) =>
        /\ values' = Append(values, last'.m)
        /\ idx'[last'.m] = Len(values)

SortContract == [](SortedOnce) /\ [][AddAfterSortAppends]_vars

SortContractWitness ==
    /\ last.op = "Add"
    /\ last.ok
    /\ IsOrderedKind(kind)
    /\ Len(last.pre.values) = 2
    /\ Ascending(last.pre.values)
    /\ last.m < last.pre.values[1]
    /\ values = Append(last.pre.values, last.m)
    /\ ~Ascending(values)

\* C25: ContainsSeq(a, seq) returns true iff every element of seq is in a,
\* for every set a and every finite sequence seq.
ContainsSeqIffAllPresent ==
    last.op = "ContainsSeq" =>
        (last.ok <=> \A i \in 1..Len(last.seq) : SetContains(kind, Recv, last.seq[i]))

\* C26: on an empty set ContainsSeq returns true iff the sequence is empty.
ContainsSeqOnEmptySet ==
    (last.op = "ContainsSeq" /\ SetCardinality(kind, Recv) = 0) =>
        /\ Recv = last.pre
        /\ last.ok <=> last.seq = <<>>

ContainsSeqOnEmptySetWitness ==
    /\ last.op = "ContainsSeq"
    /\ kind = "Map"
    /\ set = {}
    /\ last.seq = <<>>
    /\ last.ok

\* C29: for every set kind Pop returns (e, true) exactly when the set is
\* non-empty, e was a member before the call and is absent afterwards, the
\* cardinality has dropped by one and every other element is retained, for
\* an ordered set in the same relative order and with dense indices; on an
\* empty set Pop returns the zero value and false and changes nothing.
PopContract ==
    last.op = "Pop" =>
        /\ last.ok <=> SetCardinality(kind, last.pre) > 0
        /\ last.ok =>
               /\ SetContains(kind, last.pre, last.m)
               /\ ~SetContains(kind, Recv, last.m)
               /\ SetCardinality(kind, Recv) = SetCardinality(kind, last.pre) - 1
               /\ Members(kind, Recv) = Members(kind, last.pre) \ {last.m}
               /\ IsOrderedKind(kind) =>
                      /\ values = SelectSeq(last.pre.values, LAMBDA x : x # last.m)
                      /\ DOMAIN idx = Range(values)
                      /\ \A i \in 1..Len(values) : idx[values[i]] = i - 1
        /\ ~last.ok =>
               /\ last.m = None
               /\ Recv = last.pre

\* Pop took the first of two elements of an ordered set.
PopContractWitness ==
    /\ last.op = "Pop"
    /\ last.ok
    /\ kind = "Ordered"
    /\ Len(last.pre.values) = 2
    /\ last.m = last.pre.values[1]
    /\ values = <<last.pre.values[2]>>

\* ------------------------------------- the set functions on sets a, b, c

\* The kinds of a: the five set types, and a Locked that
\* NewLockedWrapping put around an Ordered.
AlgKinds == {"Map", "Ordered", "SyncMap", "Locked", "LockedOrdered", "LockedWrappingOrdered"}

\* The kinds of the second operand.
OtherKinds == {"Map", "Ordered"}

\* The kind Clone and NewEmpty build: Map.Clone is NewFrom, Ordered.Clone
\* NewOrderedFrom, SyncMap.Clone NewSyncMapFrom, LockedOrdered.Clone
\* NewLockedOrderedFrom, and Locked.Clone is NewLockedFrom whatever the
\* wrapper's delegate is.
CloneKind(k) == IF k = "LockedWrappingOrdered" THEN "Locked" ELSE k

\* The storage of a set of objs.
Cell(x) == heap[objs[x].ref]

Exists(x) == objs[x].kind # "none"

\* New[M]() / NewOrdered[M]() allocate storage no other set points to.
NewRef_Shared(x) == objs[x].ref
NewRef(x) == CHOOSE i \in 1..3 : i \notin {objs["a"].ref, objs["b"].ref}

\* s.Clone(): New...From(s.Iterator), for each order the pass may take.
CloneOf(k, r) ==
    {[kind |-> CloneKind(k), r |-> AppendSeq(CloneKind(k), NewEmptyRecv, ys).r] :
        ys \in SetIterator(k, r)}

\* The loop of Subset: false at the first element of a's pass that b does
\* not contain.
RECURSIVE SubsetLoop(_, _, _)
SubsetLoop(ys, kb, rb) ==
    IF ys = <<>> THEN TRUE
    ELSE IF ~SetContains(kb, rb, Head(ys)) THEN FALSE
    ELSE SubsetLoop(Tail(ys), kb, rb)

Subset_CardinalityOnly(ka, ra, kb, rb) ==
    {SetCardinality(ka, ra) <= SetCardinality(kb, rb)}

\* Subset(a, b): the results it may return, one for each order of a's pass.
Subset(ka, ra, kb, rb) ==
    IF SetCardinality(ka, ra) > SetCardinality(kb, rb) THEN {FALSE}
    ELSE {SubsetLoop(ys, kb, rb) : ys \in SetIterator(ka, ra)}

Equal_CardinalityOnly(ka, ra, kb, rb) ==
    {SetCardinality(ka, ra) = SetCardinality(kb, rb)}

\* Equal(a, b): Subset(a, b) && Subset(b, a) once the cardinalities agree.
Equal(ka, ra, kb, rb) ==
    IF SetCardinality(ka, ra) # SetCardinality(kb, rb) THEN {FALSE}
    ELSE {x /\ y : x \in Subset(ka, ra, kb, rb), y \in Subset(kb, rb, ka, ra)}

\* Superset(a, b): false when a has fewer elements, else Subset(b, a).
Superset(ka, ra, kb, rb) ==
    IF SetCardinality(ka, ra) < SetCardinality(kb, rb) THEN {FALSE}
    ELSE Subset(kb, rb, ka, ra)

\* What a set function or a method leaves in `last`: its name, the set it
\* was called on and its boolean result.
AlgDone(op, on, ok) == [op |-> op, on |-> on, ok |-> ok]

\* a and b are built by New...From from short sequences of keys.
AlgInit ==
    /\ kind = "none"
    /\ set = {}
    /\ idx = EmptyIdx
    /\ values = <<>>
    /\ stateI = {}
    /\ NoCalls
    /\ \E ka \in AlgKinds, kb \in OtherKinds :
       \E sa, sb \in SeqsUpTo(Keys, MaxKey) :
           /\ objs = [x \in {"a", "b", "c"} |->
                        IF x = "a" THEN [kind |-> ka, ref |-> 1]
                        ELSE IF x = "b" THEN [kind |-> kb, ref |-> 2]
                        ELSE [kind |-> "none", ref |-> 0]]
           /\ heap = (1 :> AppendSeq(ka, NewEmptyRecv, sa).r)
                        @@ (2 :> AppendSeq(kb, NewEmptyRecv, sb).r)
    /\ last = [op |-> "New", on |-> "a", ok |-> FALSE]

\* The result of a set function becomes c.
Result(res, ref) ==
    /\ objs' = [objs EXCEPT !["c"] = [kind |-> res.kind, ref |-> ref]]
    /\ heap' = [i \in DOMAIN heap \cup {ref} |-> IF i = ref THEN res.r ELSE heap[i]]

\* c := a.Clone()
AlgClone ==
    \E res \in CloneOf(objs["a"].kind, Cell("a")) :
        /\ Result(res, NewRef("a"))
        /\ last' = AlgDone("Clone", "a", FALSE)
        /\ UNCHANGED <<kind, dvars, stateI, cvars>>

Union_CloneOnly(ka, ra, kb, rb) == CloneOf(ka, ra)

\* Union(a, b): c := a.Clone(); AppendSeq(c, b.Iterator); return c
Union(ka, ra, kb, rb) ==
    {[kind |-> c.kind, r |-> AppendSeq(c.kind, c.r, ys).r] :
        c \in CloneOf(ka, ra), ys \in SetIterator(kb, rb)}

\* c := Union(a, b)
AlgUnion ==
    \E res \in Union(objs["a"].kind, Cell("a"), objs["b"].kind, Cell("b")) :
        /\ Result(res, NewRef("a"))
        /\ last' = AlgDone("Union", "a", FALSE)
        /\ UNCHANGED <<kind, dvars, stateI, cvars>>

Intersection_CloneOnly(ka, ra, kb, rb) == CloneOf(ka, ra)

\* The loop of Intersection: c.Remove(k) for each k of a's pass that b does
\* not contain.
RECURSIVE IntersectionLoop(_, _, _, _, _)
IntersectionLoop(kc, rc, ys, kb, rb) ==
    IF ys = <<>> THEN rc
    ELSE IF ~SetContains(kb, rb, Head(ys))
         THEN IntersectionLoop(kc, SetRemove(kc, rc, Head(ys)).r, Tail(ys), kb, rb)
         ELSE IntersectionLoop(kc, rc, Tail(ys), kb, rb)

\* Intersection(a, b): c := a.Clone(); the loop over a.Iterator; return c
Intersection(ka, ra, kb, rb) ==
    {[kind |-> c.kind, r |-> IntersectionLoop(c.kind, c.r, ys, kb, rb)] :
        c \in CloneOf(ka, ra), ys \in SetIterator(ka, ra)}

\* The loop of Difference: c.Remove(k) for each k of a's pass that b
\* contains.
RECURSIVE DifferenceLoop(_, _, _, _, _)
DifferenceLoop(kc, rc, ys, kb, rb) ==
    IF ys = <<>> THEN rc
    ELSE IF SetContains(kb, rb, Head(ys))
         THEN DifferenceLoop(kc, SetRemove(kc, rc, Head(ys)).r, Tail(ys), kb, rb)
         ELSE DifferenceLoop(kc, rc, Tail(ys), kb, rb)

\* Difference(a, b): c := a.Clone(); the loop over a.Iterator; return c
Difference(ka, ra, kb, rb) ==
    {[kind |-> c.kind, r |-> DifferenceLoop(c.kind, c.r, ys, kb, rb)] :
        c \in CloneOf(ka, ra), ys \in SetIterator(ka, ra)}

\* c := Intersection(a, b)
AlgIntersection ==
    \E res \in Intersection(objs["a"].kind, Cell("a"), objs["b"].kind, Cell("b")) :
        /\ Result(res, NewRef("a"))
        /\ last' = AlgDone("Intersection", "a", FALSE)
        /\ UNCHANGED <<kind, dvars, stateI, cvars>>

\* c := Difference(a, b)
AlgDifference ==
    \E res \in Difference(objs["a"].kind, Cell("a"), objs["b"].kind, Cell("b")) :
        /\ Result(res, NewRef("a"))
        /\ last' = AlgDone("Difference", "a", FALSE)
        /\ UNCHANGED <<kind, dvars, stateI, cvars>>

SymmetricDifference_AddOnly(ka, ra, kb, rb) ==
    {[kind |-> c.kind, r |-> AppendSeq(c.kind, c.r, ys).r] :
        c \in CloneOf(ka, ra), ys \in SetIterator(kb, rb)}

\* The loop of SymmetricDifference: for each k of b's pass, c.Remove(k) if a
\* contains k and c.Add(k) otherwise.
RECURSIVE SymmetricDifferenceLoop(_, _, _, _, _)
SymmetricDifferenceLoop(kc, rc, ys, ka, ra) ==
    IF ys = <<>> THEN rc
    ELSE IF SetContains(ka, ra, Head(ys))
         THEN SymmetricDifferenceLoop(kc, SetRemove(kc, rc, Head(ys)).r, Tail(ys), ka, ra)
         ELSE SymmetricDifferenceLoop(kc, SetAdd(kc, rc, Head(ys)).r, Tail(ys), ka, ra)

\* SymmetricDifference(a, b): c := a.Clone(); the loop over b.Iterator;
\* return c
SymmetricDifference(ka, ra, kb, rb) ==
    {[kind |-> c.kind, r |-> SymmetricDifferenceLoop(c.kind, c.r, ys, ka, ra)] :
        c \in CloneOf(ka, ra), ys \in SetIterator(kb, rb)}

\* c := SymmetricDifference(a, b)
AlgSymmetricDifference ==
    \E res \in SymmetricDifference(objs["a"].kind, Cell("a"), objs["b"].kind, Cell("b")) :
        /\ Result(res, NewRef("a"))
        /\ last' = AlgDone("SymmetricDifference", "a", FALSE)
        /\ UNCHANGED <<kind, dvars, stateI, cvars>>

\* Subset(a, b), Superset(a, b) or Equal(a, b) is called and returns.
AlgSubset ==
    /\ \E ok \in Subset(objs["a"].kind, Cell("a"), objs["b"].kind, Cell("b")) :
           last' = AlgDone("Subset", "a", ok)
    /\ UNCHANGED <<kind, dvars, stateI, cvars, avars>>

AlgSuperset ==
    /\ \E ok \in Superset(objs["a"].kind, Cell("a"), objs["b"].kind, Cell("b")) :
           last' = AlgDone("Superset", "a", ok)
    /\ UNCHANGED <<kind, dvars, stateI, cvars, avars>>

\* Equal(a, y) is called for another set y and returns.
AlgEqual ==
    /\ \E y \in {"b", "c"} :
           /\ Exists(y)
           /\ \E ok \in Equal(objs["a"].kind, Cell("a"), objs[y].kind, Cell(y)) :
                  last' = AlgDone("Equal", y, ok)
    /\ UNCHANGED <<kind, dvars, stateI, cvars, avars>>

\* The outcomes of the mutating methods of a set of kind k with storage r.
Mutations(k, r) ==
    {SetAdd(k, r, m).r : m \in Keys}
        \cup {SetRemove(k, r, m).r : m \in Keys}
        \cup {SetClear(k, r).r}
        \cup {a.r : a \in SetPop(k, r)}
        \cup (IF k \in {"Ordered", "LockedOrdered"}
              THEN {WithOrdered(r, OrderedSort(AsOrdered(r)))} ELSE {})

\* Add, Remove, Clear, Pop or Sort is called on a or on the result c.
AlgMutate ==
    \E x \in {"a", "c"} :
        /\ Exists(x)
        /\ \E r \in Mutations(objs[x].kind, Cell(x)) :
               heap' = [heap EXCEPT ![objs[x].ref] = r]
        /\ last' = AlgDone("Mutate", x, FALSE)
        /\ UNCHANGED <<kind, dvars, stateI, cvars, objs>>

AlgNext ==
    \/ AlgClone
    \/ AlgEqual
    \/ AlgSubset
    \/ AlgSuperset
    \/ AlgSymmetricDifference
    \/ AlgIntersection
    \/ AlgDifference
    \/ AlgUnion
    \/ AlgMutate

AlgSpec == AlgInit /\ [][AlgNext]_vars

\* C15: right after c := a.Clone(), Equal(a, c) is true and c has exactly the
\* elements of a (for Ordered and LockedOrdered in the same order), in
\* storage of its own; and an Add, Remove, Clear, Pop or Sort on one set
\* leaves the contents and order of every other set unchanged.
CloneIsSnapshot ==
    last.op = "Clone" =>
        /\ Equal(objs["a"].kind, Cell("a"), objs["c"].kind, Cell("c")) = {TRUE}
        /\ Equal(objs["c"].kind, Cell("c"), objs["a"].kind, Cell("a")) = {TRUE}
        /\ Members(objs["c"].kind, Cell("c")) = Members(objs["a"].kind, Cell("a"))
        /\ objs["a"].kind \in {"Ordered", "LockedOrdered"} =>
               /\ Cell("c").values = Cell("a").values
               /\ Cell("c").idx = Cell("a").idx

MutationLeavesOthers ==
    \A x \in {"a", "b", "c"} :
        (last'.op = "Mutate" /\ last'.on = x) =>
            \A y \in {"a", "b", "c"} \ {x} :
                Exists(y) => heap'[objs[y].ref] = heap[objs[y].ref]

CloneIsIndependentSnapshot == [](CloneIsSnapshot) /\ [][MutationLeavesOthers]_vars

CloneIsIndependentSnapshotWitness ==
    /\ last.op = "Mutate"
    /\ last.on = "c"
    /\ objs["c"].kind = "LockedOrdered"
    /\ Len(Cell("a").values) >= 2
    /\ Cell("c").values # Cell("a").values
    /\ Members(objs["c"].kind, Cell("c")) # Members(objs["a"].kind, Cell("a"))

\* C16: the clone of a Locked set that NewLockedWrapping put around an
\* Ordered set wraps an Ordered delegate too, and its pass yields the
\* elements in the order of the original's pass.
LockedCloneKeepsDelegate ==
    (last.op = "Clone" /\ objs["a"].kind = "LockedWrappingOrdered") =>
        /\ IsOrderedKind(objs["c"].kind)
        /\ SetIterator(objs["c"].kind, Cell("c")) = SetIterator(objs["a"].kind, Cell("a"))

\* C20: Union(a, b) contains exactly the elements that are in a or in b,
\* and Union(a, b) and Union(b, a) are Equal, whatever the kinds of a and b
\* and whatever order the passes take.
\* The result stored in c is described after each call; the laws between
\* several results are stated on the operands while c is still unset.
UnionContract ==
    LET ka == objs["a"].kind
        kb == objs["b"].kind
    IN  /\ last.op = "Union" =>
               Members(objs["c"].kind, Cell("c")) = Members(ka, Cell("a")) \cup Members(kb, Cell("b"))
        /\ ~Exists("c") =>
           \A u \in Union(ka, Cell("a"), kb, Cell("b")) :
               /\ u.kind = CloneKind(ka)
               /\ Members(u.kind, u.r) = Members(ka, Cell("a")) \cup Members(kb, Cell("b"))
               /\ \A v \in Union(kb, Cell("b"), ka, Cell("a")) :
                      /\ Equal(u.kind, u.r, v.kind, v.r) = {TRUE}
                      /\ Equal(v.kind, v.r, u.kind, u.r) = {TRUE}

UnionContractWitness ==
    /\ last.op = "Union"
    /\ objs["a"].kind = "Ordered"
    /\ ~(Members(objs["a"].kind, Cell("a")) \subseteq Members(objs["b"].kind, Cell("b")))
    /\ ~(Members(objs["b"].kind, Cell("b")) \subseteq Members(objs["a"].kind, Cell("a")))
    /\ Len(Cell("c").values) = 2
    /\ SubSeq(Cell("c").values, 1, 1) = Cell("a").values

\* C21: Intersection(a, b) contains exactly the elements of a that are in b
\* and Difference(a, b) exactly the elements of a that are not in b, so the
\* two results are disjoint and together make up a; Intersection(a,
\* Union(a, b)) equals a and Difference(a, a) is empty.
\* The result stored in c is described after each call; the laws between
\* several results are stated on the operands while c is still unset.
IntersectionDifferenceContract ==
    LET ka == objs["a"].kind
        kb == objs["b"].kind
        A == Members(ka, Cell("a"))
        B == Members(kb, Cell("b"))
    IN  /\ last.op = "Intersection" => Members(objs["c"].kind, Cell("c")) = A \cap B
        /\ last.op = "Difference" => Members(objs["c"].kind, Cell("c")) = A \ B
        /\ ~Exists("c") =>
           /\ \A i \in Intersection(ka, Cell("a"), kb, Cell("b")) :
              \A d \in Difference(ka, Cell("a"), kb, Cell("b")) :
                  /\ Members(i.kind, i.r) = A \cap B
                  /\ Members(d.kind, d.r) = A \ B
                  /\ Members(i.kind, i.r) \cap Members(d.kind, d.r) = {}
                  /\ Members(i.kind, i.r) \cup Members(d.kind, d.r) = A
                  /\ SetCardinality(i.kind, i.r) + SetCardinality(d.kind, d.r)
                         = SetCardinality(ka, Cell("a"))
           /\ \A u \in Union(ka, Cell("a"), kb, Cell("b")) :
              \A i \in Intersection(ka, Cell("a"), u.kind, u.r) :
                  /\ Members(i.kind, i.r) = A
                  /\ Equal(i.kind, i.r, ka, Cell("a")) = {TRUE}
           /\ \A d \in Difference(ka, Cell("a"), ka, Cell("a")) :
                  /\ Members(d.kind, d.r) = {}
                  /\ SetCardinality(d.kind, d.r) = 0

IntersectionDifferenceContractWitness ==
    /\ last.op = "Intersection"
    /\ objs["a"].kind = "LockedOrdered"
    /\ Len(Cell("a").values) = 2
    /\ Len(Cell("c").values) = 1
    /\ Cell("c").values[1] = Cell("a").values[2]

\* C22: SymmetricDifference(a, b) contains exactly the elements that are in
\* exactly one of a and b; SymmetricDifference(a, b) and
\* SymmetricDifference(b, a) are Equal, and SymmetricDifference(a, a) is
\* empty.
\* The result stored in c is described after each call; the laws between
\* several results are stated on the operands while c is still unset.
SymmetricDifferenceContract ==
    LET ka == objs["a"].kind
        kb == objs["b"].kind
        A == Members(ka, Cell("a"))
        B == Members(kb, Cell("b"))
    IN  /\ last.op = "SymmetricDifference" =>
               Members(objs["c"].kind, Cell("c")) = (A \ B) \cup (B \ A)
        /\ ~Exists("c") =>
           /\ \A u \in SymmetricDifference(ka, Cell("a"), kb, Cell("b")) :
                  /\ Members(u.kind, u.r) = (A \ B) \cup (B \ A)
                  /\ SetCardinality(u.kind, u.r) = Cardinality((A \ B) \cup (B \ A))
                  /\ \A v \in SymmetricDifference(kb, Cell("b"), ka, Cell("a")) :
                         /\ Members(v.kind, v.r) = Members(u.kind, u.r)
                         /\ Equal(u.kind, u.r, v.kind, v.r) = {TRUE}
                         /\ Equal(v.kind, v.r, u.kind, u.r) = {TRUE}
           /\ \A d \in SymmetricDifference(ka, Cell("a"), ka, Cell("a")) :
                  /\ Members(d.kind, d.r) = {}
                  /\ SetCardinality(d.kind, d.r) = 0

SymmetricDifferenceContractWitness ==
    /\ last.op = "SymmetricDifference"
    /\ objs["a"].kind = "Ordered"
    /\ Cardinality(Members(objs["a"].kind, Cell("a"))) = 2
    /\ Cardinality(Members(objs["b"].kind, Cell("b"))) = 1
    /\ Members(objs["b"].kind, Cell("b")) \subseteq Members(objs["a"].kind, Cell("a"))
    /\ Len(Cell("c").values) = 1
    /\ Cell("c").values[1] \notin Members(objs["b"].kind, Cell("b"))

\* C23: Subset(a, b) returns true iff every element of a is in b, the same
\* answer the loop alone gives without the cardinality short-circuit, and
\* Superset(a, b) returns what Subset(b, a) returns.
SubsetSupersetContract ==
    LET ka == objs["a"].kind
        kb == objs["b"].kind
        A == Members(ka, Cell("a"))
        B == Members(kb, Cell("b"))
    IN  /\ last.op = "Subset" => (last.ok <=> A \subseteq B)
        /\ last.op = "Superset" => (last.ok <=> B \subseteq A)
        /\ Subset(ka, Cell("a"), kb, Cell("b")) = {A \subseteq B}
        /\ Subset(kb, Cell("b"), ka, Cell("a")) = {B \subseteq A}
        /\ {SubsetLoop(ys, kb, Cell("b")) : ys \in SetIterator(ka, Cell("a"))}
               = Subset(ka, Cell("a"), kb, Cell("b"))
        /\ Superset(ka, Cell("a"), kb, Cell("b")) = Subset(kb, Cell("b"), ka, Cell("a"))
        /\ Superset(kb, Cell("b"), ka, Cell("a")) = Subset(ka, Cell("a"), kb, Cell("b"))

SubsetSupersetContractWitness ==
    /\ last.op = "Subset"
    /\ ~last.ok
    /\ SetCardinality(objs["a"].kind, Cell("a")) = 1
    /\ SetCardinality(objs["b"].kind, Cell("b")) = 1

\* C24: Equal(a, b) returns true iff a and b contain exactly the same
\* elements, whatever their kinds and the order of their elements; and a
\* clone of a to which one element outside a has been added is not Equal
\* to a.
\* The result stored in c is described after each call; the laws between
\* several results are stated on the operands while c is still unset.
EqualContract ==
    LET ka == objs["a"].kind
        A == Members(ka, Cell("a"))
    IN  /\ last.op = "Equal" =>
               (last.ok <=> A = Members(objs[last.on].kind, Cell(last.on)))
        /\ ~Exists("c") =>
           /\ Equal(ka, Cell("a"), objs["b"].kind, Cell("b"))
                  = {A = Members(objs["b"].kind, Cell("b"))}
           /\ Equal(objs["b"].kind, Cell("b"), ka, Cell("a"))
                  = {A = Members(objs["b"].kind, Cell("b"))}
           /\ \A c \in CloneOf(ka, Cell("a")) :
                  /\ Equal(ka, Cell("a"), c.kind, c.r) = {TRUE}
                  /\ \A m \in Elems \ A :
                         Equal(ka, Cell("a"), c.kind, SetAdd(c.kind, c.r, m).r) = {FALSE}

\* Two ordered sets with the same two elements in opposite orders are Equal.
EqualContractWitness ==
    /\ last.op = "Equal"
    /\ last.on = "b"
    /\ last.ok
    /\ objs["a"].kind = "Ordered"
    /\ objs["b"].kind = "Ordered"
    /\ Len(Cell("a").values) = 2
    /\ Cell("a").values # Cell("b").values

\* ------------------------------------------------ Ordered sets and JSON

\* The JSON number literal of an element.
Literal(n) == ToString(n)

\* The bodies of the JSON arrays handed to UnmarshalJSON: sequences of number
\* literals, repeats included.
JsonArrays == SeqsUpTo({Literal(n) : n \in Elems}, MaxSeqLen)

\* json.Unmarshal(d, &t) into a slice: the slice is reset to length zero
\* and the value of each array element is appended in order.
JsonUnmarshal(d) == [i \in 1..Len(d) |-> CHOOSE n \in Elems : Literal(n) = d[i]]

\* json.Marshal(s.values): the literals of the elements in order.
JsonMarshal(vals) == [i \in 1..Len(vals) |-> Literal(vals[i])]

\* Ordered.MarshalJSON: "[]" for the empty set, else json.Marshal(s.values).
OrderedMarshalJSON(o) == IF Len(o.values) = 0 THEN <<>> ELSE JsonMarshal(o.values)

\* Ordered.UnmarshalJSON: s.Clear(); json.Unmarshal(d, &s.values);
\* for i, v := range s.values { s.idx[v] = i }
OrderedUnmarshalJSON(o, d) ==
    LET vals == JsonUnmarshal(d)
    IN  [idx |-> Renumber(OrderedClear(o).o.idx, vals, 0), values |-> vals]

JsonInit ==
    /\ kind = "Ordered"
    /\ \E seq \in SeqsUpTo(Keys, MaxKey) :
           LET o == NewOrderedFrom(seq)
           IN  /\ idx = o.idx
               /\ values = o.values
    /\ set = {}
    /\ stateI = {}
    /\ last = [op |-> "New", m |-> None, ok |-> FALSE, n |-> 0, pre |-> NewEmptyRecv,
                seq |-> <<>>]
    /\ NoCalls
    /\ NoObjects

\* d, err := s.MarshalJSON()
JsonMarshalJSON ==
    /\ last' = [Done("MarshalJSON", None, FALSE, 0)
                    EXCEPT !.seq = OrderedMarshalJSON(AsOrdered(Recv))]
    /\ UNCHANGED <<kind, dvars, stateI, cvars, avars>>

\* err := s.UnmarshalJSON(d) for a JSON array d
JsonUnmarshalJSON ==
    \E d \in JsonArrays :
        /\ Store(WithOrdered(Recv, OrderedUnmarshalJSON(AsOrdered(Recv), d)))
        /\ last' = [Done("UnmarshalJSON", None, FALSE, 0) EXCEPT !.seq = d]
        /\ UNCHANGED <<kind, stateI, cvars, avars>>

JsonNext ==
    \/ JsonMarshalJSON
    \/ JsonUnmarshalJSON

JsonSpec == JsonInit /\ [][JsonNext]_vars

\* C30: after Ordered.UnmarshalJSON has decoded a JSON array, repeats
\* included, every element occurs once in values, Cardinality() is the
\* number of distinct values of the array and Index(At(i)) == i for every
\* position i.
UnmarshalDropsDuplicates ==
    last.op = "UnmarshalJSON" =>
        /\ NoDup(values)
        /\ SetCardinality(kind, Recv) = Cardinality(Range(last.seq))
        /\ \A i \in 0..(Len(values) - 1) :
               OrderedIndex(AsOrdered(Recv), OrderedAt(AsOrdered(Recv), i).m) = i

\* ------------------------- SyncMap and Locked under concurrent callers

SyncKinds == {"SyncMap", "Locked"}

SyncMethods == {"Add", "Remove", "Clear"}

\* No call in progress; the fields of a call are its name, its argument
\* and what it returns (ok for Add and Remove, n for Clear).
NoSyncCall == [name |-> "none", m |-> None, ok |-> FALSE, n |-> 0]

\* The locals of SyncMap.Clear: n, the keys Range has still to visit, the
\* keys it has visited, and the number of entries m.Clear() deleted.
NoRange == [n |-> 0, left |-> {}, seen |-> {}, removed |-> 0]

\* NewSyncMapFrom / NewLockedFrom of a short sequence of keys; ev keeps the
\* initial elements.
SyncInit ==
    /\ kind \in SyncKinds
    /\ \E seq \in SeqsUpTo(Keys, MaxKey) : set = AppendSeq(kind, NewEmptyRecv, seq).r.set
    /\ idx = EmptyIdx
    /\ values = <<>>
    /\ stateI = {}
    /\ last = [op |-> "New", m |-> None, ok |-> FALSE, n |-> 0, pre |-> NewEmptyRecv,
                seq |-> <<>>]
    /\ pc = [g \in Goroutines |-> "idle"]
    /\ call = [g \in Goroutines |-> NoSyncCall]
    /\ calls = [g \in Goroutines |-> 0]
    /\ writer = None
    /\ readers = {}
    /\ iterating = FALSE
    /\ waiters = {}
    /\ cur = [g \in Goroutines |-> NoRange]
    /\ ev = [init |-> set]
    /\ NoObjects

\* Each goroutine makes one call: Add(m), Remove(m) or Clear().
SyncCall(g) ==
    /\ pc[g] = "idle"
    /\ calls[g] = 0
    /\ \E name \in SyncMethods, m \in Keys :
           /\ name = "Clear" => m = 1
           /\ call' = [call EXCEPT ![g] =
                          [NoSyncCall EXCEPT !.name = name,
                                             !.m = IF name = "Clear" THEN None ELSE m]]
    /\ pc' = [pc EXCEPT ![g] = "start"]
    /\ calls' = [calls EXCEPT ![g] = 1]
    /\ UNCHANGED <<kind, dvars, stateI, last, writer, readers, iterating, waiters, cur,
                   ev, avars>>

\* What the set and the call look like after s.set.Add / Remove / Clear, or
\* after the one atomic sync.Map operation of SyncMap.Add / Remove.
Applied(g) ==
    LET c == call[g]
    IN  CASE c.name = "Add" ->
                LET a == SetAdd(kind, Recv, c.m)
                IN  [set |-> a.r.set, call |-> [c EXCEPT !.ok = a.ret]]
          [] c.name = "Remove" ->
                LET a == SetRemove(kind, Recv, c.m)
                IN  [set |-> a.r.set, call |-> [c EXCEPT !.ok = a.ret]]
          [] c.name = "Clear" ->
                LET a == SetClear(kind, Recv)
                IN  [set |-> a.r.set, call |-> [c EXCEPT !.n = a.ret]]

SyncAtomic_TestThenStore(g) ==
    /\ kind = "SyncMap"
    /\ pc[g] \in {"start", "tested"}
    /\ call[g].name \in {"Add", "Remove"}
    /\ IF pc[g] = "start"
       THEN /\ call' = [call EXCEPT ![g] = Applied(g).call]
            /\ pc' = [pc EXCEPT ![g] = "tested"]
            /\ UNCHANGED set
       ELSE /\ set' = IF call[g].name = "Add" THEN set \cup {call[g].m}
                      ELSE set \ {call[g].m}
            /\ pc' = [pc EXCEPT ![g] = "done"]
            /\ UNCHANGED call
    /\ UNCHANGED <<kind, idx, values, stateI, last, calls, writer, readers, iterating,
                   waiters, cur, ev, avars>>

\* SyncMap.Add: s.m.LoadOrStore(m, struct{}{}); SyncMap.Remove:
\* s.m.LoadAndDelete(m). One atomic operation of sync.Map each.
SyncAtomic(g) ==
    /\ kind = "SyncMap"
    /\ pc[g] = "start"
    /\ call[g].name \in {"Add", "Remove"}
    /\ LET after == Applied(g)
       IN  /\ set' = after.set
           /\ call' = [call EXCEPT ![g] = after.call]
    /\ pc' = [pc EXCEPT ![g] = "done"]
    /\ UNCHANGED <<kind, idx, values, stateI, last, calls, writer, readers, iterating,
                   waiters, cur, ev, avars>>

\* SyncMap.Clear, s.m.Range begins: the keys present are to be visited.
SyncRangeBegin(g) ==
    /\ kind = "SyncMap"
    /\ pc[g] = "start"
    /\ call[g].name = "Clear"
    /\ cur' = [cur EXCEPT ![g] = [NoRange EXCEPT !.left = set]]
    /\ pc' = [pc EXCEPT ![g] = "range"]
    /\ UNCHANGED <<kind, dvars, stateI, last, call, calls, writer, readers, iterating,
                   waiters, ev, avars>>

\* Range calls the function for one more key: n++. It visits no key twice;
\* a key stored or deleted by another goroutine during the Range may or
\* may not be visited.
SyncRangeVisit(g) ==
    /\ kind = "SyncMap"
    /\ pc[g] = "range"
    /\ \E k \in (cur[g].left \cup set) \ cur[g].seen :
       \E counted \in BOOLEAN :
           /\ (k \in set /\ k \in cur[g].left) => counted
           /\ (k \notin set /\ k \notin cur[g].left) => ~counted
           /\ cur' = [cur EXCEPT ![g] =
                         [@ EXCEPT !.n = IF counted THEN @ + 1 ELSE @,
                                   !.left = @ \ {k},
                                   !.seen = @ \cup {k}]]
    /\ UNCHANGED <<kind, dvars, stateI, last, pc, call, calls, writer, readers, iterating,
                   waiters, ev, avars>>

\* Range returns once it has dealt with every key that was present when it
\* began; then s.m.Clear() deletes every entry and Clear returns n.
SyncMapClear(g) ==
    /\ kind = "SyncMap"
    /\ pc[g] = "range"
    /\ cur[g].left = {}
    /\ set' = {}
    /\ cur' = [cur EXCEPT ![g] = [@ EXCEPT !.removed = Cardinality(set)]]
    /\ call' = [call EXCEPT ![g] = [@ EXCEPT !.n = cur[g].n]]
    /\ pc' = [pc EXCEPT ![g] = "done"]
    /\ UNCHANGED <<kind, idx, values, stateI, last, calls, writer, readers, iterating,
                   waiters, ev, avars>>

\* Locked: s.Lock()
SyncLock(g) ==
    /\ kind = "Locked"
    /\ pc[g] = "start"
    /\ writer = None
    /\ readers = {}
    /\ writer' = g
    /\ pc' = [pc EXCEPT ![g] = "locked"]
    /\ UNCHANGED <<kind, dvars, stateI, last, call, calls, readers, iterating, waiters,
                   cur, ev, avars>>

\* Locked: return s.set.Add(m) / Remove(m) / Clear() and the deferred
\* s.Unlock()
SyncDelegate(g) ==
    /\ kind = "Locked"
    /\ pc[g] = "locked"
    /\ LET after == Applied(g)
       IN  /\ set' = after.set
           /\ call' = [call EXCEPT ![g] = after.call]
           /\ cur' = [cur EXCEPT ![g] =
                         [@ EXCEPT !.removed = IF call[g].name = "Clear"
                                               THEN Cardinality(set) ELSE 0]]
    /\ writer' = None
    /\ pc' = [pc EXCEPT ![g] = "done"]
    /\ UNCHANGED <<kind, idx, values, stateI, last, calls, readers, iterating, waiters,
                   ev, avars>>

SyncStep(g) ==
    \/ SyncCall(g)
    \/ SyncAtomic(g)
    \/ SyncRangeBegin(g)
    \/ SyncRangeVisit(g)
    \/ SyncMapClear(g)
    \/ SyncLock(g)
    \/ SyncDelegate(g)

SyncNext == \E g \in Goroutines : SyncStep(g)

SyncSpec == SyncInit /\ [][SyncNext]_vars

\* The calls Add(e) that have returned, and those among them that returned
\* true.
Added(e) == {g \in Goroutines : pc[g] = "done" /\ call[g].name = "Add" /\ call[g].m = e}

Winners(e) == {g \in Added(e) : call[g].ok}

\* Some goroutine has called Remove(e) or Clear().
MayRemove(e) ==
    \E g \in Goroutines :
        \/ call[g].name = "Clear"
        \/ call[g].name = "Remove" /\ call[g].m = e

\* C27: when goroutines concurrently call Add(e) on a SyncMap or Locked set
\* that did not contain e, and nobody removes e, exactly one of the calls
\* that have returned has returned true, the others false, and the set
\* contains e.
ConcurrentAddOnce ==
    \A e \in Keys :
        (e \notin ev.init /\ ~MayRemove(e)) =>
            /\ Cardinality(Winners(e)) <= 1
            /\ Added(e) # {} => (Cardinality(Winners(e)) = 1 /\ SetContains(kind, Recv, e))

ConcurrentAddOnceWitness ==
    /\ kind = "SyncMap"
    /\ \E e \in Keys :
           /\ e \notin ev.init
           /\ Added(e) = Goroutines
           /\ Cardinality(Winners(e)) = 1
           /\ e \in set

\* C28: SyncMap.Clear returns the number of elements the call removed, also
\* when other goroutines call Add or Remove while it runs.
SyncClearCountsRemoved ==
    \A g \in Goroutines :
        (kind = "SyncMap" /\ pc[g] = "done" /\ call[g].name = "Clear") =>
            call[g].n = cur[g].removed

SetFunctions == {"Union", "Intersection", "Difference", "SymmetricDifference"}

\* C40: Union, Intersection, Difference and SymmetricDifference leave the
\* storage of both operands as it was, members and order, and return a set
\* in storage of its own; a later Add, Remove, Clear, Pop or Sort on the
\* result changes neither a nor b.
OperandsUnchanged ==
    /\ last'.op \in SetFunctions =>
           /\ objs'["a"] = objs["a"]
           /\ objs'["b"] = objs["b"]
           /\ heap'[objs["a"].ref] = heap[objs["a"].ref]
           /\ heap'[objs["b"].ref] = heap[objs["b"].ref]
           /\ objs'["c"].ref \notin {objs["a"].ref, objs["b"].ref}
    /\ (last'.op = "Mutate" /\ last'.on = "c") =>
           /\ heap'[objs["a"].ref] = heap[objs["a"].ref]
           /\ heap'[objs["b"].ref] = heap[objs["b"].ref]

SetFunctionsLeaveOperands == [][OperandsUnchanged]_vars

SetFunctionsLeaveOperandsWitness ==
    /\ last.op = "SymmetricDifference"
    /\ objs["a"].kind = "LockedOrdered"
    /\ Len(Cell("a").values) = 2
    /\ SetCardinality(objs["b"].kind, Cell("b")) = 1
    /\ Len(Cell("c").values) = 1
    /\ objs["c"].ref # objs["a"].ref

\* ------------------------------------------------ The JSON round trip

RoundTripKinds == {"Map", "Ordered", "SyncMap", "Locked"}

\* Map.MarshalJSON, SyncMap.MarshalJSON: "[]" for the empty set, else
\* json.Marshal(slices.Collect(s.Iterator)), in any order the pass may take.
MapMarshalJSON(s) ==
    {IF Len(v) = 0 THEN <<>> ELSE JsonMarshal(v) : v \in MapIterator(s)}

\* The loop `for _, m := range um { s.Add(m) }`.
RECURSIVE MapAddEach(_, _)
MapAddEach(s, um) ==
    IF um = <<>> THEN s ELSE MapAddEach(MapAdd(s, Head(um)).set, Tail(um))

MapUnmarshalJSON_NoClear(s, d) == MapAddEach(s, JsonUnmarshal(d))

\* Map.UnmarshalJSON, SyncMap.UnmarshalJSON: json.Unmarshal(d, &um);
\* s.Clear(); s.Add(m) for each m of um.
MapUnmarshalJSON(s, d) == MapAddEach(MapClear(s).set, JsonUnmarshal(d))

\* The loop `for _, v := range t { s.Add(v) }`.
RECURSIVE OrderedAddEach(_, _)
OrderedAddEach(o, t) ==
    IF t = <<>> THEN o ELSE OrderedAddEach(OrderedAdd(o, Head(t)).o, Tail(t))

\* Ordered.UnmarshalJSON in the form that decodes into a slice t and then
\* calls s.Clear() and s.Add(v) for each v of t.
OrderedUnmarshalJSONByAdd(o, d) == OrderedAddEach(OrderedClear(o).o, JsonUnmarshal(d))

\* s.MarshalJSON(), which s.Value() returns: the documents it may produce.
\* Locked delegates to its set under RLock.
SetMarshalJSON(k, r) ==
    IF IsOrderedKind(k) THEN {OrderedMarshalJSON(AsOrdered(r))} ELSE MapMarshalJSON(r.set)

\* s.UnmarshalJSON(d): the receivers it may leave, one for each form of
\* Ordered.UnmarshalJSON. Locked delegates to its set under Lock.
SetUnmarshalJSON(k, r, d) ==
    IF IsOrderedKind(k)
    THEN {WithOrdered(r, OrderedUnmarshalJSON(AsOrdered(r), d)),
          WithOrdered(r, OrderedUnmarshalJSONByAdd(AsOrdered(r), d))}
    ELSE {WithMap(r, MapUnmarshalJSON(r.set, d))}

\* The dynamic types of the src handed to Scan.
ScanSources == {"nil", "[]byte", "string"}

\* scanValue(src, clear, unmarshal): clear() for nil, unmarshal(st) for a
\* []byte, unmarshal([]byte(st)) for a string.
scanValue(k, r, src, d) ==
    IF src = "nil" THEN {SetClear(k, r).r} ELSE SetUnmarshalJSON(k, r, d)

\* New...From(seq) of a short sequence of keys; no document yet.
RoundTripInit ==
    /\ kind \in RoundTripKinds
    /\ \E seq \in SeqsUpTo(Keys, MaxKey) :
           LET r == AppendSeq(kind, NewEmptyRecv, seq).r
           IN  /\ set = r.set
               /\ idx = r.idx
               /\ values = r.values
    /\ stateI = {}
    /\ last = [op |-> "New", m |-> None, ok |-> FALSE, n |-> 0, pre |-> NewEmptyRecv,
                seq |-> <<>>]
    /\ pc = [g \in Goroutines |-> "idle"]
    /\ call = [g \in Goroutines |-> NoOp]
    /\ calls = 0
    /\ writer = None
    /\ readers = [g \in Goroutines |-> 0]
    /\ iterating = FALSE
    /\ waiters = {}
    /\ cur = [g \in Goroutines |-> NoCursor]
    /\ ev = [have |-> FALSE, d |-> <<>>, orig |-> NewEmptyRecv, src |-> "nil"]
    /\ NoObjects

\* d, err := s.MarshalJSON() (or s.Value()); ev keeps the document and the
\* set it was made from.
RoundTripMarshalJSON ==
    \E d \in SetMarshalJSON(kind, Recv) :
        /\ ev' = [have |-> TRUE, d |-> d, orig |-> Recv, src |-> "nil"]
        /\ last' = [Done("MarshalJSON", None, FALSE, 0) EXCEPT !.seq = d]
        /\ UNCHANGED <<kind, dvars, stateI, pc, call, calls, writer, readers, iterating,
                       waiters, cur, avars>>

\* s.Add(m): the set that will decode the document holds anything.
RoundTripAdd ==
    \E m \in Keys :
        LET a == SetAdd(kind, Recv, m)
        IN  /\ Store(a.r)
            /\ last' = Done("Add", m, a.ret, 0)
            /\ UNCHANGED <<kind, stateI, cvars, avars>>

\* s.Remove(m)
RoundTripRemove ==
    \E m \in Keys :
        LET a == SetRemove(kind, Recv, m)
        IN  /\ Store(a.r)
            /\ last' = Done("Remove", m, a.ret, 0)
            /\ UNCHANGED <<kind, stateI, cvars, avars>>

\* err := s.UnmarshalJSON(d) with the document MarshalJSON produced
RoundTripUnmarshalJSON ==
    /\ ev.have
    /\ \E r \in SetUnmarshalJSON(kind, Recv, ev.d) :
           /\ Store(r)
           /\ last' = [Done("UnmarshalJSON", None, FALSE, 0) EXCEPT !.seq = ev.d]
           /\ ev' = [ev EXCEPT !.src = "[]byte"]
           /\ UNCHANGED <<kind, stateI, pc, call, calls, writer, readers, iterating,
                          waiters, cur, avars>>

\* err := s.Scan(src) with nil or with the document as []byte or string
RoundTripScan ==
    /\ ev.have
    /\ \E src \in ScanSources :
           \E r \in scanValue(kind, Recv, src, ev.d) :
               /\ Store(r)
               /\ last' = [Done("Scan", None, FALSE, 0) EXCEPT !.seq = ev.d]
               /\ ev' = [ev EXCEPT !.src = src]
               /\ UNCHANGED <<kind, stateI, pc, call, calls, writer, readers, iterating,
                              waiters, cur, avars>>

RoundTripNext ==
    \/ RoundTripMarshalJSON
    \/ RoundTripAdd
    \/ RoundTripRemove
    \/ RoundTripUnmarshalJSON
    \/ RoundTripScan

RoundTripSpec == RoundTripInit /\ [][RoundTripNext]_vars

\* C31: a set that has decoded, with UnmarshalJSON or Scan, the document
\* its kind's MarshalJSON (or Value) produced from a set is Equal to that
\* set whatever it held before, and an Ordered set has the same elements
\* in the same order with a matching index; Scan(nil) leaves the set empty.
JsonRoundTrip ==
    /\ (last.op \in {"UnmarshalJSON", "Scan"} /\ ev.src # "nil") =>
           /\ Equal(kind, Recv, kind, ev.orig) = {TRUE}
           /\ Equal(kind, ev.orig, kind, Recv) = {TRUE}
           /\ IsOrderedKind(kind) =>
                  /\ values = ev.orig.values
                  /\ idx = ev.orig.idx
    /\ (last.op = "Scan" /\ ev.src = "nil") =>
           /\ SetCardinality(kind, Recv) = 0
           /\ \A m \in Elems : ~SetContains(kind, Recv, m)

\* A Locked set that held {1} has decoded the document of {2} by Scan.
JsonRoundTripWitness ==
    /\ last.op = "Scan"
    /\ ev.src = "string"
    /\ kind = "Locked"
    /\ last.pre.set = {1}
    /\ ev.orig.set = {2}
    /\ set = {2}

\* ------------------------------------------------------- Max and Min

MaxKinds == {"Map", "Locked"}

\* The built-in max and min of two ordered values.
max(x, y) == IF x >= y THEN x ELSE y

min(x, y) == IF x <= y THEN x ELSE y

\* for i, k := range Iter2(s.Iterator): mx = k at index 0, else
\* mx = max(mx, k); mx starts as the zero value of K.
RECURSIVE MaxLoop(_, _, _)
MaxLoop(ys, i, mx) ==
    IF ys = <<>> THEN mx
    ELSE MaxLoop(Tail(ys), i + 1, IF i = 0 THEN Head(ys) ELSE max(mx, Head(ys)))

RECURSIVE MinLoop(_, _, _)
MinLoop(ys, i, mn) ==
    IF ys = <<>> THEN mn
    ELSE MinLoop(Tail(ys), i + 1, IF i = 0 THEN Head(ys) ELSE min(mn, Head(ys)))

\* New...From(seq): a Map used by one goroutine at a time, or a Locked set
\* shared by the goroutines.
MaxInit ==
    /\ kind \in MaxKinds
    /\ set \in SUBSET Elems
    /\ idx = EmptyIdx
    /\ values = <<>>
    /\ stateI = {}
    /\ last = [op |-> "New", m |-> None, ok |-> FALSE, n |-> 0, pre |-> NewEmptyRecv,
                seq |-> <<>>]
    /\ NoCalls
    /\ NoObjects

\* A goroutine calls Max(s) or Min(s).
MaxCall(g) ==
    /\ pc[g] = "idle"
    /\ \E name \in {"Max", "Min"} : call' = [call EXCEPT ![g] = [NoOp EXCEPT !.name = name]]
    /\ pc' = [pc EXCEPT ![g] = "max_card"]
    /\ UNCHANGED <<kind, dvars, stateI, last, calls, writer, readers, iterating, waiters,
                   cur, ev, avars>>

\* if s.Cardinality() == 0 { panic("empty set") }; Locked.Cardinality takes
\* and releases the read lock. last.ok tells whether the call returned.
MaxCardinality(g) ==
    /\ pc[g] = "max_card"
    /\ IF SetCardinality(kind, Recv) = 0
       THEN /\ pc' = [pc EXCEPT ![g] = "idle"]
            /\ call' = [call EXCEPT ![g] = NoOp]
            /\ last' = Done(call[g].name, None, FALSE, 0)
       ELSE /\ pc' = [pc EXCEPT ![g] = "max_iter"]
            /\ UNCHANGED <<call, last>>
    /\ UNCHANGED <<kind, dvars, stateI, calls, writer, readers, iterating, waiters, cur,
                   ev, avars>>

\* The loop over Iter2(s.Iterator) and the return; Locked.Iterator holds
\* the read lock for the whole pass. last.n is the number of yields.
MaxIterate(g) ==
    /\ pc[g] = "max_iter"
    /\ \E ys \in SetIterator(kind, Recv) :
           last' = Done(call[g].name,
                        IF call[g].name = "Max" THEN MaxLoop(ys, 0, None)
                        ELSE MinLoop(ys, 0, None),
                        TRUE, Len(ys))
    /\ pc' = [pc EXCEPT ![g] = "idle"]
    /\ call' = [call EXCEPT ![g] = NoOp]
    /\ UNCHANGED <<kind, dvars, stateI, calls, writer, readers, iterating, waiters, cur,
                   ev, avars>>

\* s.Add(m), s.Remove(m) or s.Clear() by a goroutine that is in no call; on
\* a Locked set each runs under the write lock, at any point between the
\* steps of the other goroutines. A bare Map is only changed while no
\* goroutine is inside Max or Min.
MaxMutate(g) ==
    /\ pc[g] = "idle"
    /\ calls < MaxCalls
    /\ kind = "Map" => \A h \in Goroutines : pc[h] = "idle"
    /\ \E r \in {SetClear(kind, Recv).r}
                \cup {SetAdd(kind, Recv, m).r : m \in Elems}
                \cup {SetRemove(kind, Recv, m).r : m \in Elems} :
           /\ r # Recv
           /\ Store(r)
    /\ calls' = calls + 1
    /\ UNCHANGED <<kind, stateI, last, pc, call, writer, readers, iterating, waiters, cur,
                   ev, avars>>

MaxStep(g) ==
    \/ MaxCall(g)
    \/ MaxCardinality(g)
    \/ MaxIterate(g)
    \/ MaxMutate(g)

MaxNext == \E g \in Goroutines : MaxStep(g)

MaxSpec == MaxInit /\ [][MaxNext]_vars

\* C32: a call of Max or Min that returns, and does not panic, returns a
\* member of the set it iterated, the greatest or the least one; this
\* holds too for a Locked set that other goroutines change between the
\* emptiness check and the pass.
MaxReturnsMember ==
    (last.op \in {"Max", "Min"} /\ last.ok) =>
        /\ last.m \in last.pre.set
        /\ last.op = "Max" => \A e \in last.pre.set : e <= last.m
        /\ last.op = "Min" => \A e \in last.pre.set : e >= last.m

\* ------------------------------------- OrderedSet with fields m and i

\* OrderedSet.Contains: _, ok := s.m[m]
OrderedSetContains(o, m) == m \in DOMAIN o.m

\* OrderedSet.Add: s.m[m] = len(s.i) - 1; s.i = append(s.i, m)
OrderedSetAdd(o, m) ==
    IF OrderedSetContains(o, m)
    THEN [o |-> o, ret |-> FALSE]
    ELSE [o |-> [m |-> (m :> (Len(o.i) - 1)) @@ o.m, i |-> Append(o.i, m)], ret |-> TRUE]

\* OrderedSet.Remove: i := s.m[m]; s.i = append(s.i[:i], s.i[i+1:]...);
\* delete(s.m, m). The slice expressions panic when i < 0 or i+1 > len(s.i),
\* before anything is assigned.
OrderedSetRemove(o, m) ==
    IF ~OrderedSetContains(o, m)
    THEN [o |-> o, ret |-> FALSE, panic |-> FALSE]
    ELSE LET i == o.m[m]
         IN  IF i < 0 \/ i + 1 > Len(o.i)
             THEN [o |-> o, ret |-> FALSE, panic |-> TRUE]
             ELSE [o |-> [m |-> Delete(o.m, m),
                          i |-> SubSeq(o.i, 1, i) \o SubSeq(o.i, i + 2, Len(o.i))],
                   ret |-> TRUE, panic |-> FALSE]

\* OrderedSet.Cardinality: len(s.i)
OrderedSetCardinality(o) == Len(o.i)

\* OrderedSet.Iterator: the elements of s.i in order.
OrderedSetIterator(o) == o.i

\* The receiver as an OrderedSet: idx holds s.m and values holds s.i.
AsOrderedSet == [m |-> idx, i |-> values]

\* NewOrdered(): an empty m and an empty i.
OrderedSetInit ==
    /\ kind = "OrderedSet"
    /\ set = {}
    /\ idx = EmptyIdx
    /\ values = <<>>
    /\ stateI = {}
    /\ last = [op |-> "New", m |-> None, ok |-> FALSE, n |-> 0, pre |-> NewEmptyRecv,
                seq |-> <<>>]
    /\ NoCalls
    /\ NoObjects

\* s.Add(m)
OrderedSetAddCall ==
    \E m \in Elems :
        LET a == OrderedSetAdd(AsOrderedSet, m)
        IN  /\ idx' = a.o.m
            /\ values' = a.o.i
            /\ last' = Done("Add", m, a.ret, 0)
            /\ UNCHANGED <<kind, set, stateI, cvars, avars>>

\* s.Remove(m); last.op is "RemovePanic" when the call panics.
OrderedSetRemoveCall ==
    \E m \in Elems :
        LET a == OrderedSetRemove(AsOrderedSet, m)
        IN  /\ idx' = a.o.m
            /\ values' = a.o.i
            /\ last' = Done(IF a.panic THEN "RemovePanic" ELSE "Remove", m, a.ret, 0)
            /\ UNCHANGED <<kind, set, stateI, cvars, avars>>

OrderedSetNext ==
    \/ OrderedSetAddCall
    \/ OrderedSetRemoveCall

OrderedSetSpec == OrderedSetInit /\ [][OrderedSetNext]_vars

\* C36: in an OrderedSet, after every Add and Remove, m maps each element
\* to its position in i and Contains is true exactly for the elements the
\* Iterator yields; a Remove(e) of an element of the set returns true and
\* removes e and nothing else, keeping the order of the rest.
OrderedSetIndexInvariant ==
    /\ \A j \in 1..Len(values) : values[j] \in DOMAIN idx /\ idx[values[j]] = j - 1
    /\ \A e \in Elems :
           OrderedSetContains(AsOrderedSet, e) <=> e \in Range(OrderedSetIterator(AsOrderedSet))
    /\ last.op # "RemovePanic"
    /\ (last.op = "Remove" /\ last.m \in Range(last.pre.values)) =>
           /\ last.ok
           /\ Range(values) = Range(last.pre.values) \ {last.m}
           /\ OrderedSetCardinality(AsOrderedSet) = Len(last.pre.values) - 1

\* ------------------------------- the condition variable is never used

\* C37: on the cond-var wrappers iterating is true only while the
\* goroutine that runs the pass holds the lock: a mutator that has the lock
\* finds iterating false, so no goroutine is ever in Cond.Wait and no
\* Broadcast has anyone to wake.
CondNeverWaits ==
    HasCond(kind) =>
        /\ iterating => \E g \in Goroutines : InPass(g) /\ writer = g
        /\ \A g \in Goroutines :
               (writer = g /\ WaitsIfIterating(kind, call[g].name)) => ~iterating
        /\ \A g \in Goroutines : pc[g] # "wait" /\ ~call[g].woken
        /\ waiters = {}

\* An Add called during a pass of another goroutine has the lock after the
\* pass ended.
CondNeverWaitsWitness ==
    \E g \in Goroutines :
        /\ kind = "lockedMap"
        /\ call[g].name = "Add"
        /\ call[g].during
        /\ pc[g] = "held"
        /\ writer = g
        /\ ev.exit = "stop"

\* ------------------------------------- the lock during a cond-var pass

\* C34 as stated: on the cond-var wrappers Iterator releases L after
\* setting iterating and before it yields the first element, so a goroutine
\* inside the range loop does not hold L.
IteratorYieldsUnlocked ==
    \A g \in Goroutines : (HasCond(kind) /\ InPass(g)) => writer # g

\* C34: on the cond-var wrappers Iterator acquires L, sets iterating and
\* keeps L through the whole range loop; L is released once, by the
\* deferred function, in the step that ends the pass and clears iterating.
IteratorHoldsLock ==
    /\ [](HasCond(kind) =>
            \A g \in Goroutines : InPass(g) => (writer = g /\ iterating))
    /\ [][\A g \in Goroutines :
            (HasCond(kind) /\ InPass(g)) =>
                IF pc'[g] = "iter"
                THEN writer' = g /\ iterating'
                ELSE writer' = None /\ ~iterating' /\ pc'[g] = "idle"]_vars

\* A pass over the cond-var LockedOrdered has yielded an element and goes
\* on with the lock held.
IteratorHoldsLockWitness ==
    \E g \in Goroutines :
        /\ kind = "LockedOrderedCond"
        /\ InPass(g)
        /\ call[g].name = "Iterator"
        /\ cur[g].n = 1
        /\ writer = g
        /\ iterating

\* ------------------------------- Cardinality followed by a full pass

TornKinds == {"lockedMap", "LockedOrderedCond"}

\* NewLockedFrom / NewLockedOrderedFrom of the initial elements; last[g] is
\* the value goroutine g's latest Cardinality() returned.
TornInit ==
    /\ kind \in TornKinds
    /\ LET r == AppendSeq(kind, NewEmptyRecv, InitialSeq).r
       IN  /\ set = r.set
           /\ idx = r.idx
           /\ values = r.values
    /\ stateI = {}
    /\ last = [g \in Goroutines |-> 0]
    /\ NoCalls
    /\ NoObjects

\* A goroutine calls n := s.Cardinality().
SampleCall(g) ==
    /\ pc[g] = "idle"
    /\ calls < MaxCalls
    /\ pc' = [pc EXCEPT ![g] = "sample"]
    /\ call' = [call EXCEPT ![g] = [name |-> "Cardinality", during |-> PassInProgress,
                                    woken |-> FALSE]]
    /\ calls' = calls + 1
    /\ UNCHANGED <<kind, dvars, stateI, last, avars, writer, readers, iterating, waiters,
                   cur, ev>>

\* Cardinality: RLock, s.set.Cardinality(), RUnlock; the caller keeps the
\* result and calls s.Iterator next.
SampleCardinality(g) ==
    /\ pc[g] = "sample"
    /\ CanRLock
    /\ last' = [last EXCEPT ![g] = SetCardinality(kind, Recv)]
    /\ call' = [call EXCEPT ![g] = [name |-> "Iterator", during |-> PassInProgress,
                                    woken |-> FALSE]]
    /\ pc' = [pc EXCEPT ![g] = "acquire"]
    /\ UNCHANGED <<kind, dvars, stateI, avars, calls, writer, readers, iterating, waiters,
                   cur, ev>>

\* The other goroutines call Add and Remove; the consumer of the pass asks
\* for every element.
TornStep(g) ==
    \/ SampleCall(g)
    \/ SampleCardinality(g)
    \/ Call(g, {"Add", "Remove"})
    \/ Lock(g)
    \/ LockAcquired(g)
    \/ Apply(g)
    \/ Yield(g, {"continue"})
    \/ Return(g)

TornNext == \E g \in Goroutines : TornStep(g)

TornSpec == TornInit /\ [][TornNext]_vars

\* The number of elements a pass has still to yield.
Remaining(g) ==
    IF IsOrderedKind(kind) THEN Len(values) - cur[g].n ELSE Cardinality(cur[g].left)

\* C33 as stated: a full pass that follows a Cardinality() of the same
\* goroutine yields as many elements as that Cardinality() returned, also
\* when other goroutines call Add and Remove.
PassCountIsSampledCardinality ==
    [][\A g \in Goroutines :
          (InPass(g) /\ ~HasNext(g) /\ pc'[g] = "idle") => cur[g].n = last[g]]_vars

\* C33: a full pass yields as many elements as the set holds while the
\* pass has the lock: at every point of the pass the yields so far and the
\* elements still to come add up to Cardinality(), no step changes the set
\* during the pass, and the pass ends having yielded Cardinality() elements.
PassCountIsCardinalityDuringPass ==
    /\ [](\A g \in Goroutines :
            InPass(g) => cur[g].n + Remaining(g) = SetCardinality(kind, Recv))
    /\ [][\A g \in Goroutines :
            InPass(g) =>
                /\ UNCHANGED dvars
                /\ (~HasNext(g) /\ pc'[g] = "idle") =>
                       cur[g].n = SetCardinality(kind, Recv)]_vars

\* A pass has yielded every element of a set that a Remove shrank after
\* the goroutine's Cardinality() had returned.
PassCountIsCardinalityDuringPassWitness ==
    \E g \in Goroutines :
        /\ kind = "lockedMap"
        /\ InPass(g)
        /\ ~HasNext(g)
        /\ cur[g].n = 1
        /\ last[g] = 2

\* ------------------------- LockedMap with an RWMutex and an atomic flag

AtomicMutators == {"Add", "Remove", "Clear"}

AtomicReads == {"Contains", "Cardinality"}

\* A goroutine is inside the body of a method, touching s.m.
InBody(g) == pc[g] = "body"

\* NewLockedFrom of the initial elements; ev.fatal is set when the runtime
\* stops the program on a concurrent map access.
AtomicInit ==
    /\ kind = "LockedMapAtomic"
    /\ set = MapAddEach({}, InitialSeq)
    /\ idx = EmptyIdx
    /\ values = <<>>
    /\ stateI = {}
    /\ last = [op |-> "New", m |-> None, ok |-> FALSE, n |-> 0, pre |-> NewEmptyRecv]
    /\ pc = [g \in Goroutines |-> "idle"]
    /\ call = [g \in Goroutines |-> NoOp]
    /\ calls = 0
    /\ writer = None
    /\ readers = [g \in Goroutines |-> 0]
    /\ iterating = FALSE
    /\ waiters = {}
    /\ cur = [g \in Goroutines |-> NoCursor]
    /\ ev = [fatal |-> FALSE]
    /\ NoObjects

\* A goroutine calls Add, Remove, Clear, Contains, Cardinality or Iterator.
AtomicCall(g) ==
    /\ ~ev.fatal
    /\ pc[g] = "idle"
    /\ calls < MaxCalls
    /\ \E nm \in AtomicMutators \cup AtomicReads \cup {"Iterator"} :
           /\ call' = [call EXCEPT ![g] = [NoOp EXCEPT !.name = nm]]
           /\ pc' = [pc EXCEPT ![g] = IF nm = "Iterator" THEN "cas" ELSE "load"]
    /\ calls' = calls + 1
    /\ UNCHANGED <<kind, dvars, stateI, last, avars, writer, readers, iterating, waiters,
                   cur, ev>>

\* if !s.iterating.Load() { ... }: with the flag set the method goes on to
\* its body without the lock.
AtomicLoad(g) ==
    /\ ~ev.fatal
    /\ pc[g] = "load"
    /\ pc' = [pc EXCEPT ![g] = IF iterating THEN "body" ELSE "lock"]
    /\ UNCHANGED <<kind, dvars, stateI, last, avars, call, calls, writer, readers,
                   iterating, waiters, cur, ev>>

\* s.Lock() of Add, Remove and Clear; s.RLock() of Contains and Cardinality.
AtomicLock(g) ==
    /\ ~ev.fatal
    /\ pc[g] = "lock"
    /\ WriteSideFree
    /\ IF call[g].name \in AtomicMutators
       THEN /\ ReadersDrained
            /\ writer' = g
            /\ UNCHANGED readers
       ELSE /\ readers' = [readers EXCEPT ![g] = @ + 1]
            /\ UNCHANGED writer
    /\ pc' = [pc EXCEPT ![g] = "body"]
    /\ UNCHANGED <<kind, dvars, stateI, last, avars, call, calls, iterating, waiters, cur,
                   ev>>

\* The body of the method on s.m.
AtomicBody(g, s) ==
    CASE call[g].name = "Add" -> {MapAdd(s, m).set : m \in Keys}
      [] call[g].name = "Remove" -> {MapRemove(s, m).set : m \in Keys}
      [] call[g].name = "Clear" -> {MapClear(s).set}
      [] OTHER -> {s}

\* Another goroutine is reading or writing s.m at the same time.
Racing(g) ==
    \E h \in Goroutines \ {g} :
        \/ InPass(h)
        \/ InBody(h) /\ (call[g].name \in AtomicMutators \/ call[h].name \in AtomicMutators)

\* The body runs and the deferred unlock follows if the lock was taken. A
\* write to s.m while another goroutine ranges over it or is in its own
\* body is a data race: the runtime may stop the program, and a range in
\* progress may or may not come to see the keys written.
AtomicApply(g) ==
    /\ ~ev.fatal
    /\ pc[g] = "body"
    /\ \E s \in AtomicBody(g, set) :
           /\ set' = s
           /\ \E seen \in SUBSET (s \ set) :
                  cur' = [h \in Goroutines |->
                            IF InPass(h)
                            THEN [cur[h] EXCEPT !.left = (@ \cap s) \cup seen]
                            ELSE cur[h]]
    /\ \E stop \in (IF Racing(g) THEN BOOLEAN ELSE {FALSE}) : ev' = [fatal |-> stop]
    /\ writer' = IF writer = g THEN None ELSE writer
    /\ readers' = [readers EXCEPT ![g] = 0]
    /\ pc' = [pc EXCEPT ![g] = "idle"]
    /\ call' = [call EXCEPT ![g] = NoOp]
    /\ UNCHANGED <<kind, idx, values, stateI, last, avars, calls, iterating, waiters>>

\* for !s.iterating.CompareAndSwap(false, true) {}
AtomicCompareAndSwap(g) ==
    /\ ~ev.fatal
    /\ pc[g] = "cas"
    /\ ~iterating
    /\ iterating' = TRUE
    /\ pc' = [pc EXCEPT ![g] = "rlock"]
    /\ UNCHANGED <<kind, dvars, stateI, last, avars, call, calls, writer, readers, waiters,
                   cur, ev>>

\* s.RLock() of Iterator; the range over s.m begins.
AtomicRLock(g) ==
    /\ ~ev.fatal
    /\ pc[g] = "rlock"
    /\ CanRLock
    /\ readers' = [readers EXCEPT ![g] = @ + 1]
    /\ cur' = [cur EXCEPT ![g] = [n |-> 0, left |-> set]]
    /\ pc' = [pc EXCEPT ![g] = "iter"]
    /\ UNCHANGED <<kind, dvars, stateI, last, avars, call, calls, writer, iterating,
                   waiters, ev>>

\* The range yields a key and goes on, or the pass ends (no key left, or
\* the consumer returns false) and the deferred function stores false in
\* iterating and calls RUnlock.
AtomicYield(g) ==
    /\ ~ev.fatal
    /\ pc[g] = "iter"
    /\ \/ \E m \in cur[g].left :
              /\ cur' = [cur EXCEPT ![g] = [n |-> @.n + 1, left |-> @.left \ {m}]]
              /\ UNCHANGED <<pc, call, readers, iterating>>
       \/ /\ iterating' = FALSE
          /\ readers' = [readers EXCEPT ![g] = @ - 1]
          /\ cur' = [cur EXCEPT ![g] = NoCursor]
          /\ pc' = [pc EXCEPT ![g] = "idle"]
          /\ call' = [call EXCEPT ![g] = NoOp]
    /\ UNCHANGED <<kind, dvars, stateI, last, avars, calls, writer, waiters, ev>>

AtomicStep(g) ==
    \/ AtomicCall(g)
    \/ AtomicLoad(g)
    \/ AtomicLock(g)
    \/ AtomicApply(g)
    \/ AtomicCompareAndSwap(g)
    \/ AtomicRLock(g)
    \/ AtomicYield(g)

AtomicNext == \E g \in Goroutines : AtomicStep(g)

AtomicSpec == AtomicInit /\ [][AtomicNext]_vars

\* C35: in the LockedMap with an RWMutex and an atomic flag, a goroutine
\* inside the body of Add, Remove or Clear holds the write lock, one inside
\* Contains or Cardinality holds the read lock, and while a goroutine is
\* inside a mutator's body no other goroutine is in a pass or in a body.
MapAccessUnderRWMutex ==
    \A g \in Goroutines :
        InBody(g) =>
            /\ IF call[g].name \in AtomicMutators THEN writer = g ELSE readers[g] > 0
            /\ call[g].name \in AtomicMutators =>
                   \A h \in Goroutines \ {g} : ~InPass(h) /\ ~InBody(h)

\* ------------------------------- Equal(a, b) called by two goroutines

Operands == {"a", "b"}

\* A goroutine that is not inside Subset.
NoSubset == [x |-> "a", y |-> "b", n |-> 0, left |-> {}, k |-> None]

\* a and b are two lockedMap sets built by NewLockedFrom, non-empty and of
\* the same size; heap[x] is the delegate of x and writer[x] the goroutine
\* that holds x's lock for writing.
EqualInit ==
    /\ kind = "lockedMap"
    /\ set = {}
    /\ idx = EmptyIdx
    /\ values = <<>>
    /\ stateI = {}
    /\ last = [op |-> "New", m |-> None, ok |-> FALSE, n |-> 0, pre |-> NewEmptyRecv]
    /\ objs = [x \in {"a", "b", "c"} |->
                 [kind |-> IF x = "c" THEN "none" ELSE "lockedMap", ref |-> 0]]
    /\ \E ra, rb \in (SUBSET Keys) \ {{}} :
           /\ MapCardinality(ra) = MapCardinality(rb)
           /\ heap = [x \in Operands |-> IF x = "a" THEN ra ELSE rb]
    /\ pc = [g \in Goroutines |-> "idle"]
    /\ call = [g \in Goroutines |-> NoOp]
    /\ calls = 0
    /\ writer = [x \in Operands |-> None]
    /\ readers = [x \in Operands |-> {}]
    /\ iterating = [x \in Operands |-> FALSE]
    /\ waiters = {}
    /\ cur = [g \in Goroutines |-> NoSubset]
    /\ ev = [g \in Goroutines |-> "none"]

\* A goroutine calls Equal(a, b).
EqualCall(g) ==
    /\ pc[g] = "idle"
    /\ calls < MaxCalls
    /\ pc' = [pc EXCEPT ![g] = "eq_card"]
    /\ call' = [call EXCEPT ![g] = [NoOp EXCEPT !.name = "Equal"]]
    /\ cur' = [cur EXCEPT ![g] = NoSubset]
    /\ calls' = calls + 1
    /\ UNCHANGED <<kind, dvars, stateI, last, avars, writer, readers, iterating, waiters, ev>>

\* Equal or Subset returns ok to the caller of Equal.
EqualReturn(g, ok) ==
    /\ pc' = [pc EXCEPT ![g] = "idle"]
    /\ call' = [call EXCEPT ![g] = NoOp]
    /\ cur' = [cur EXCEPT ![g] = NoSubset]
    /\ ev' = [ev EXCEPT ![g] = IF ok THEN "true" ELSE "false"]

\* One of the two Cardinality() calls of a comparison: RLock, read, RUnlock
\* on the first set and then on the second. Equal returns false when the
\* cardinalities differ, Subset(x, y) when x has more elements than y.
EqualCardinality(g) ==
    /\ pc[g] \in {"eq_card", "sub_card"}
    /\ LET s == IF cur[g].n = 0 THEN cur[g].x ELSE cur[g].y
           cx == MapCardinality(heap[cur[g].x])
           cy == MapCardinality(heap[cur[g].y])
       IN  /\ writer[s] = None
           /\ IF cur[g].n = 0
              THEN /\ cur' = [cur EXCEPT ![g].n = 1]
                   /\ UNCHANGED <<pc, call, ev>>
              ELSE IF (pc[g] = "eq_card" /\ cx # cy) \/ (pc[g] = "sub_card" /\ cx > cy)
              THEN EqualReturn(g, FALSE)
              ELSE /\ cur' = [cur EXCEPT ![g].n = 0]
                   /\ pc' = [pc EXCEPT ![g] = IF pc[g] = "eq_card" THEN "sub_card"
                                               ELSE "sub_lock"]
                   /\ UNCHANGED <<call, ev>>
    /\ UNCHANGED <<kind, dvars, stateI, last, avars, calls, writer, readers, iterating,
                   waiters>>

\* lockedMap.Iterator of the first set of Subset: s.Cond.L.Lock();
\* s.iterating = true; the range over the delegate begins.
EqualIterator(g) ==
    /\ pc[g] = "sub_lock"
    /\ writer[cur[g].x] = None
    /\ readers[cur[g].x] = {}
    /\ writer' = [writer EXCEPT ![cur[g].x] = g]
    /\ iterating' = [iterating EXCEPT ![cur[g].x] = TRUE]
    /\ cur' = [cur EXCEPT ![g].left = heap[cur[g].x]]
    /\ pc' = [pc EXCEPT ![g] = "sub_iter"]
    /\ UNCHANGED <<kind, dvars, stateI, last, avars, call, calls, readers, waiters, ev>>

\* The deferred function of Iterator on the first set of Subset.
EqualPassExit(g) ==
    /\ writer' = [writer EXCEPT ![cur[g].x] = None]
    /\ iterating' = [iterating EXCEPT ![cur[g].x] = FALSE]

\* The range yields the next key to Subset's loop body, or is exhausted:
\* Subset(a, b) returned true and Equal goes on to Subset(b, a), or
\* Subset(b, a) returned true and so does Equal.
EqualYield(g) ==
    /\ pc[g] = "sub_iter"
    /\ IF cur[g].left # {}
       THEN /\ \E k \in cur[g].left : cur' = [cur EXCEPT ![g].k = k]
            /\ pc' = [pc EXCEPT ![g] = "sub_cb"]
            /\ UNCHANGED <<call, ev, writer, iterating>>
       ELSE /\ EqualPassExit(g)
            /\ IF cur[g].x = "a"
               THEN /\ cur' = [cur EXCEPT ![g] = [NoSubset EXCEPT !.x = "b", !.y = "a"]]
                    /\ pc' = [pc EXCEPT ![g] = "sub_card"]
                    /\ UNCHANGED <<call, ev>>
               ELSE EqualReturn(g, TRUE)
    /\ UNCHANGED <<kind, dvars, stateI, last, avars, calls, readers, waiters>>

\* if !b.Contains(k) { return false }: lockedMap.Contains takes the read
\* lock of the second set; on false the loop ends and the pass cleans up.
EqualContains(g) ==
    /\ pc[g] = "sub_cb"
    /\ writer[cur[g].y] = None
    /\ IF MapContains(heap[cur[g].y], cur[g].k)
       THEN /\ cur' = [cur EXCEPT ![g].left = @ \ {cur[g].k}, ![g].k = None]
            /\ pc' = [pc EXCEPT ![g] = "sub_iter"]
            /\ UNCHANGED <<call, ev, writer, iterating>>
       ELSE /\ EqualPassExit(g)
            /\ EqualReturn(g, FALSE)
    /\ UNCHANGED <<kind, dvars, stateI, last, avars, calls, readers, waiters>>

EqualStep(g) ==
    \/ EqualCall(g)
    \/ EqualCardinality(g)
    \/ EqualIterator(g)
    \/ EqualYield(g)
    \/ EqualContains(g)

EqualNext == \E g \in Goroutines : EqualStep(g)

EqualSpec == EqualInit /\ [][EqualNext]_vars

\* C38: goroutines that evaluate Equal(a, b) on two distinct, non-empty
\* lockedMap sets of the same size never wait for each other in a circle:
\* while a goroutine is inside Equal, some goroutine inside Equal can take
\* a step.
ConcurrentEqualReturns ==
    \A g \in Goroutines :
        pc[g] # "idle" => \E h \in Goroutines : pc[h] # "idle" /\ ENABLED EqualStep(h)

\* ------------------------- a mutator called from the yield callback

ReentrantKinds == {"Locked", "LockedOrdered"}

ReentrantInit == InitOf(ReentrantKinds)

\* The yield callback of the goroutine's own Iterator pass calls a
\* mutating method of the same set.
CallInYield(g) ==
    /\ pc[g] = "iter"
    /\ call[g].name = "Iterator"
    /\ HasNext(g)
    /\ calls < MaxCalls
    /\ \E nm \in Mutators(kind) :
           call' = [call EXCEPT ![g] = [name |-> nm, during |-> TRUE, woken |-> FALSE]]
    /\ pc' = [pc EXCEPT ![g] = "acquire"]
    /\ calls' = calls + 1
    /\ UNCHANGED <<kind, dvars, stateI, last, avars, writer, readers, iterating, waiters,
                   cur, ev>>

ReentrantStep(g) ==
    \/ Call(g, {"Add", "Remove", "Contains", "Iterator"})
    \/ CallInYield(g)
    \/ Lock(g)
    \/ LockAcquired(g)
    \/ RLock(g)
    \/ Apply(g)
    \/ Yield(g, Responses)
    \/ Return(g)

ReentrantNext == \E g \in Goroutines : ReentrantStep(g)

ReentrantSpec == ReentrantInit /\ [][ReentrantNext]_vars

\* C39: on Locked and LockedOrdered a mutating method called from the
\* yield callback of the set's own Iterator never returns: the caller holds
\* the read lock of its pass, so its Lock never gets past waiting for the
\* readers, it never runs on the delegate, and no step brings it back into
\* the loop.
MutatorInYieldNeverReturns ==
    /\ [](\A g \in Goroutines :
            InCallback(g) => (pc[g] \in {"acquire", "drain"} /\ readers[g] > 0))
    /\ [][\A g \in Goroutines : InCallback(g) => (InCallback(g)' /\ UNCHANGED dvars)]_vars

\* An Add called from the callback of a pass over a Locked set has taken
\* the write side and waits for the readers, itself among them.
MutatorInYieldNeverReturnsWitness ==
    \E g \in Goroutines :
        /\ kind = "Locked"
        /\ InCallback(g)
        /\ call[g].name = "Add"
        /\ pc[g] = "drain"
        /\ writer = g
        /\ cur[g].n = 1

====
